---- MODULE Spec2Model ----
(***************************************************************************)
(* Model of the invoice batch tool (fapiao_gui.py): the WorkerThread.run   *)
(* batch loop with duplicate tracking and relocation, the directory walk,  *)
(* the invoice-number pattern cascade, and the part of the window          *)
(* (FapiaoCounterApp) that starts a batch and displays its result.         *)
(*                                                                         *)
(* Representation                                                          *)
(*  - a file path below the selected root is [dir, name]: dir the sequence *)
(*    of directory names below the root, name = [stem, ts, ext]; ts is the *)
(*    sequence of timestamp suffixes added by move_duplicate_invoice.      *)
(*  - a Decimal with two fraction digits is an integer number of cents.    *)
(*  - a digit run in a PDF text is [id, from, len]: len digits of the run  *)
(*    named id, starting at offset from; "" is NoNumber.                   *)
(*  - the text of a PDF, as far as the invoice-number patterns see it, is  *)
(*    a sequence of segments [label, digits], separated by text that no    *)
(*    pattern matches.                                                     *)
(*  - the text of a PDF, as the amount and company patterns see it, is a   *)
(*    sequence of characters; a character outside ASCII is written by a    *)
(*    name (the tables are with the patterns).                             *)
(***************************************************************************)
EXTENDS Integers, Sequences, FiniteSets, TLC

VARIABLES
  \* ---- environment: the disk and the clock
  dir_state,          \* what the selected root path is: "dir", "missing", "file"
  disk,               \* existing files below the root: path -> PDF content
  tmp_dir_exists,     \* whether <root>/tmp_duplicates exists
  failed_file,        \* failed_fapiao.txt: [exists, lines]
  duplicate_file,     \* duplicate_fapiao.txt: [exists, lines]
  log_file_exists,    \* fapiao_error.log
  text_files,         \* PDFs for which <pdf>_text.txt exists
  now,                \* last value read from the clock (seconds)
  \* ---- the window
  dir_path, start_enabled, dir_enabled,
  save_text_checked, clean_files_checked, enable_logging_checked,
  results_text,
  logger_level,
  \* ---- the worker thread
  worker,             \* constructor arguments of the current WorkerThread
  pc,                 \* "none", "start", "loop", "body", "done"
  all_pdf_files, index, emitted_progress,
  total_amount, total_count, failed_count, duplicate_count,
  failed_list, success_list, duplicate_list, processed_invoice_numbers,
  result,             \* the dict emitted by finished_processing, until delivered
  log,                \* history: one entry per finished loop iteration
  runs,               \* history: the number of batches started
  history,            \* history: one entry per execution of run(), kept
                      \* where batches are compared
  \* ---- extract_invoice_number on a text
  num_text, invoice_number,
  \* ---- the extractors on a PDF
  pdf,                \* the PDF handed to the extractors: [readable, pages]
  amount_result,      \* what extract_amount_from_pdf did: [raised, value]
  \* ---- extract_company_info on a text
  company_text,       \* the text handed to extract_company_info
  company_info,       \* its local `result`
  company_pc,         \* the strategies that have run so far: 0..4
  \* ---- setup_logging on the logger
  logger              \* the handlers of the logger, in order, and the
                      \* enable_logging of every call so far; the batch keeps
                      \* of the logger its level and the log file only

envVars == <<dir_state, disk, tmp_dir_exists, failed_file, duplicate_file,
             log_file_exists, text_files, now>>
uiVars == <<dir_path, start_enabled, dir_enabled, save_text_checked,
            clean_files_checked, enable_logging_checked, results_text,
            logger_level>>
tallyVars == <<total_amount, total_count, failed_count, duplicate_count,
               failed_list, success_list, duplicate_list,
               processed_invoice_numbers>>
workerVars == <<worker, pc, all_pdf_files, index, emitted_progress, result, log,
               runs, history>>
numVars == <<num_text, invoice_number, pdf, amount_result, company_text,
             company_info, company_pc, logger>>
vars == <<envVars, uiVars, tallyVars, workerVars, numVars>>

----------------------------------------------------------------------------
(* Bounds *)

MaxDocs == 3
MaxRuns == 1
MaxClock == 2
MaxSegs == 2
MaxPages == 2
MaxLines == 2
MaxCalls == 7

----------------------------------------------------------------------------
(* Paths *)

Min(a, b) == IF a < b THEN a ELSE b

Last(s) == s[Len(s)]

Range(s) == {s[i] : i \in 1..Len(s)}

RECURSIVE SetToSeq(_)
SetToSeq(S) ==
  IF S = {} THEN <<>>
  ELSE LET x == CHOOSE y \in S : TRUE IN <<x>> \o SetToSeq(S \ {x})

QuarantineName == "tmp_duplicates"
RootName == "invoices"
Unselected == "unselected"

FileName(stem, ext) == [stem |-> stem, ts |-> <<>>, ext |-> ext]
Path(dir, stem, ext) == [dir |-> dir, name |-> FileName(stem, ext)]

\* str.lower() on the extensions that occur
Lower(ext) == IF ext = ".PDF" THEN ".pdf" ELSE ext

\* file.lower().endswith('.pdf')
IsPdfName(name) == Lower(name.ext) = ".pdf"

\* os.path.basename(root) for the directory that holds path p
DirBaseName(p, rootname) == IF p.dir = <<>> THEN rootname ELSE Last(p.dir)

\* whether p lies inside <root>/tmp_duplicates, at any depth
InQuarantine(p) == Len(p.dir) >= 1 /\ p.dir[1] = QuarantineName

----------------------------------------------------------------------------
(* The directory walk: WorkerThread.run, "# 先统计所有PDF文件" *)

\* the listing order of os.walk (top-down) over the paths that can be listed
ListingOrder ==
  << Path(<<>>, "a", ".pdf"),
     Path(<<>>, "n", ".txt"),
     Path(<<"s1">>, "a", ".pdf"),
     Path(<<"s1", QuarantineName>>, "a", ".pdf"),
     Path(<<"s2">>, "a", ".PDF"),
     Path(<<"s3">>, "a", ".pdf"),
     Path(<<"s4">>, "a", ".pdf"),
     Path(<<QuarantineName>>, "a", ".pdf"),
     Path(<<QuarantineName, "s1">>, "a", ".pdf") >>

\* if os.path.basename(root) == "tmp_duplicates": continue
SkipRoot(p, rootname) == DirBaseName(p, rootname) = QuarantineName

\* the file is appended to all_pdf_files
Listed(p, rootname) == ~SkipRoot(p, rootname) /\ IsPdfName(p.name)

\* all_pdf_files after the walk over the files in `files`
Walk(files, rootname) ==
  LET hit == {p \in files : Listed(p, rootname)}
      known == SelectSeq(ListingOrder, LAMBDA p : p \in hit)
  IN  known \o SetToSeq(hit \ Range(ListingOrder))

\* if not os.path.exists(...) / if not os.path.isdir(...)
DirectoryValid_existsOnly(state) == state # "missing"
DirectoryValid(state) == state = "dir"

----------------------------------------------------------------------------
(* extract_invoice_number *)

NoNumber == [id |-> "", from |-> 0, len |-> 0]

\* the value of invoice_number before extract_invoice_number has returned
Unset == [id |-> "unset", from |-> 0, len |-> 0]

Digits(id, len) == [id |-> id, from |-> 0, len |-> len]

\* labels that can precede a digit run:
\*   "FPHM："  发票号码 + full-width colon     "FPHM:"  发票号码 + ASCII colon
\*   "FPHM"    发票号码 without colon          "HM："/"HM:"  号码 + colon
\*   "No." "No:" "No"                          ""  no label
Labels == {"FPHM_FW", "FPHM:", "FPHM", "HM_FW", "HM:", "No.", "No:", "No", ""}

\* the eight labelled patterns, in list order: the labels a pattern's prefix
\* matches and the {min,max} of its digit group
patterns ==
  << [labels |-> {"FPHM_FW", "FPHM:"}, min |-> 8, max |-> 30],
     [labels |-> {"FPHM_FW", "FPHM:"}, min |-> 10, max |-> 12],
     [labels |-> {"FPHM"}, min |-> 8, max |-> 30],
     [labels |-> {"No.", "No:", "No"}, min |-> 8, max |-> 30],
     [labels |-> {"No.", "No:", "No"}, min |-> 10, max |-> 12],
     [labels |-> {"FPHM_FW", "FPHM:", "HM_FW", "HM:"}, min |-> 8, max |-> 30],
     [labels |-> {"FPHM_FW"}, min |-> 20, max |-> 20],
     [labels |-> {"FPHM_FW"}, min |-> 10, max |-> 30] >>

\* the general pattern matches after any label: (\d{10,30})\b
general_number_pattern == [labels |-> Labels, min |-> 10, max |-> 30]

\* whether pattern pat matches in segment seg
Matches(pat, seg) == seg.label \in pat.labels /\ seg.digits.len >= pat.min

\* the group a labelled pattern captures in seg: greedy from the run's start
Capture(pat, seg) ==
  [id |-> seg.digits.id, from |-> seg.digits.from,
   len |-> Min(seg.digits.len, pat.max)]

\* the group the general pattern captures: the \b forces the run's end
CaptureGeneral(pat, seg) ==
  LET n == Min(seg.digits.len, pat.max)
  IN  [id |-> seg.digits.id, from |-> seg.digits.from + seg.digits.len - n,
       len |-> n]

\* re.findall(pattern, text)
RECURSIVE FindAll(_, _, _)
FindAll(pat, text, general) ==
  IF text = <<>> THEN <<>>
  ELSE LET rest == FindAll(pat, Tail(text), general)
           seg == Head(text)
       IN  IF Matches(pat, seg)
           THEN <<IF general THEN CaptureGeneral(pat, seg)
                             ELSE Capture(pat, seg)>> \o rest
           ELSE rest

\* max(matches, key=len): the first of the longest
LongestMatch_first(matches) == matches[1]
LongestMatch(matches) ==
  LET i == CHOOSE i \in 1..Len(matches) :
             /\ \A j \in 1..Len(matches) : matches[j].len <= matches[i].len
             /\ \A j \in 1..(i-1) : matches[j].len < matches[i].len
  IN  matches[i]

\* for pattern in patterns: ... return longest_match, from pattern k on
RECURSIVE Cascade(_, _)
Cascade(text, k) ==
  IF k > Len(patterns)
  THEN LET matches == FindAll(general_number_pattern, text, TRUE)
       IN  IF matches # <<>> THEN LongestMatch(matches) ELSE NoNumber
  ELSE LET matches == FindAll(patterns[k], text, FALSE)
       IN  IF matches # <<>> THEN LongestMatch(matches)
           ELSE Cascade(text, k + 1)

\* extract_invoice_number(pdf_path, text) for a given text
extract_invoice_number(text) == Cascade(text, 1)

----------------------------------------------------------------------------
(* Regular expressions, as re.findall evaluates them: a backtracking matcher
   that yields the outcomes of a pattern at a position in priority order *)

Unbounded == 99

Chr(S) == [k |-> "chr", s |-> S]

\* . matches any character but a newline
Dot == [k |-> "dot"]

\* $ matches at the end of the text and before a final newline
Eos == [k |-> "eos"]

Cat(a) == [k |-> "cat", a |-> a]

Alt(a) == [k |-> "alt", a |-> a]

\* r{lo,hi}, greedy or lazy
Rep(r, lo, hi, greedy) ==
  [k |-> "rep", r |-> r, lo |-> lo, hi |-> hi, greedy |-> greedy]

\* a capturing group
Grp(r) == [k |-> "grp", r |-> r]

\* a pattern that re cannot compile: re.findall raises re.error
Uncompilable == [k |-> "error"]

\* a literal word
Lit(w) == Cat([j \in 1..Len(w) |-> Chr({w[j]})])

\* the concatenation of the sequences ss[lo..hi]
RECURSIVE FlattenRange(_, _, _)
FlattenRange(ss, lo, hi) ==
  IF lo > hi THEN <<>>
  ELSE IF lo = hi THEN ss[lo]
  ELSE LET mid == (lo + hi) \div 2
       IN  FlattenRange(ss, lo, mid) \o FlattenRange(ss, mid + 1, hi)

Flatten(ss) == FlattenRange(ss, 1, Len(ss))

\* whether the one-character pattern re matches the character at position j
OneChar(re, t, j) ==
  /\ j <= Len(t)
  /\ IF re.k = "chr" THEN t[j] \in re.s ELSE t[j] # "\n"

\* the outcomes [to, caps] of matching re in text t from position i: `to` is
\* the position after the match, caps the captured groups
RECURSIVE MatchAt(_, _, _)
MatchAt(re, t, i) ==
  CASE re.k \in {"chr", "dot"} ->
         IF OneChar(re, t, i)
         THEN <<[to |-> i + 1, caps |-> <<>>]>> ELSE <<>>
    [] re.k = "eos" ->
         IF i = Len(t) + 1 \/ (i = Len(t) /\ t[i] = "\n")
         THEN <<[to |-> i, caps |-> <<>>]>> ELSE <<>>
    [] re.k = "grp" ->
         LET inner == MatchAt(re.r, t, i)
         IN  [j \in 1..Len(inner) |->
                [to |-> inner[j].to,
                 caps |-> <<SubSeq(t, i, inner[j].to - 1)>> \o inner[j].caps]]
    [] re.k = "alt" ->
         Flatten([b \in 1..Len(re.a) |-> MatchAt(re.a[b], t, i)])
    [] re.k = "cat" ->
         IF re.a = <<>> THEN <<[to |-> i, caps |-> <<>>]>>
         ELSE LET heads == MatchAt(Head(re.a), t, i)
              IN  Flatten([j \in 1..Len(heads) |->
                    LET rest == MatchAt(Cat(Tail(re.a)), t, heads[j].to)
                    IN  [m \in 1..Len(rest) |->
                           [to |-> rest[m].to,
                            caps |-> heads[j].caps \o rest[m].caps]]])
    [] re.k = "rep" /\ re.r.k \in {"chr", "dot"} ->
         \* a repeated single character: the run of matching characters
         LET most == Min(re.hi, Len(t) - i + 1)
             run == CHOOSE n \in 0..most :
                      /\ \A m \in 0..(n - 1) : OneChar(re.r, t, i + m)
                      /\ n = most \/ ~OneChar(re.r, t, i + n)
             least == IF re.lo < 0 THEN 0 ELSE re.lo
         IN  [m \in 1..(run - least + 1) |->
                [to |-> IF re.greedy THEN i + run - (m - 1)
                        ELSE i + least + (m - 1),
                 caps |-> <<>>]]
    [] re.k = "rep" /\ re.r.k \notin {"chr", "dot"} ->
         LET stop == IF re.lo <= 0 THEN <<[to |-> i, caps |-> <<>>]>>
                     ELSE <<>>
             once == IF re.hi <= 0 THEN <<>> ELSE MatchAt(re.r, t, i)
             more == Flatten([j \in 1..Len(once) |->
                       IF once[j].to = i THEN <<>>
                       ELSE MatchAt(Rep(re.r, re.lo - 1, re.hi - 1, re.greedy),
                                    t, once[j].to)])
         IN  IF re.greedy THEN more \o stop ELSE stop \o more

\* the non-overlapping matches of re in t from position i on, left to right:
\* the groups of each
RECURSIVE SearchFrom(_, _, _)
SearchFrom(re, t, i) ==
  LET hits == {j \in i..(Len(t) + 1) : MatchAt(re, t, j) # <<>>}
      j == CHOOSE j \in hits : \A m \in hits : j <= m
      to == MatchAt(re, t, j)[1].to
  IN  IF hits = {} THEN <<>>
      ELSE <<MatchAt(re, t, j)[1].caps>>
             \o SearchFrom(re, t, IF to > j THEN to ELSE j + 1)

\* re.findall(pattern, text), for a pattern that compiles
re_findall(re, t) == SearchFrom(re, t, 1)

\* re.search(pattern, text).group(0), <<>> standing for None
re_search(re, t) ==
  LET hits == {i \in 1..(Len(t) + 1) : MatchAt(re, t, i) # <<>>}
      i == CHOOSE i \in hits : \A j \in hits : i <= j
  IN  IF hits = {} THEN <<>> ELSE <<SubSeq(t, i, MatchAt(re, t, i)[1].to - 1)>>

----------------------------------------------------------------------------
(* extract_amount_from_pdf on a text.  Characters outside ASCII, by name:
     jia shui he ji   价 税 合 计        zong     總
     jin e            金 额              han      含
     xiao xie da      小 写 大           ren min bi   人 民 币
     yi bai yuan zheng   壹 佰 元 整 (of the capital numerals)
     fwcolon ：   fwyen ￥   yen ¥   fwlp （   fwrp ）                      *)

Digit == {"0", "1", "2", "3", "4", "5", "6", "7", "8", "9"}

\* \s
Space == {" ", "\n"}

JSHJ == <<"jia", "shui", "he", "ji">>

SJHJ == <<"shui", "jia", "he", "ji">>

HSHJ == <<"han", "shui", "he", "ji">>

HJJE == <<"he", "ji", "jin", "e">>

XX == <<"xiao", "xie">>

DX == <<"da", "xie">>

RMB == <<"ren", "min", "bi">>

\* [零壹贰叁肆伍陆柒捌玖拾佰仟万亿元角分整], the ones that occur
CapitalNumerals == {"yi", "bai", "yuan", "zheng"}

\* [：:]
Colon == Chr({"fwcolon", ":"})

\* \s*
Spaces == Rep(Chr(Space), 0, Unbounded, TRUE)

\* .*?
Lazy == Rep(Dot, 0, Unbounded, FALSE)

\* ￥?
OptFwYen == Rep(Chr({"fwyen"}), 0, 1, TRUE)

\* ([0-9,]+\.[0-9]{2})
Amt ==
  Grp(Cat(<<Rep(Chr(Digit \cup {","}), 1, Unbounded, TRUE), Chr({"."}),
            Chr(Digit), Chr(Digit)>>))

\* [：:]\s*￥?\s*([0-9,]+\.[0-9]{2})
ColonAmt == Cat(<<Colon, Spaces, OptFwYen, Spaces, Amt>>)

\* ([0-9]{1,3}(?:,[0-9]{3})*\.[0-9]{2})
GroupedAmt ==
  Grp(Cat(<<Rep(Chr(Digit), 1, 3, TRUE),
            Rep(Cat(<<Chr({","}), Chr(Digit), Chr(Digit), Chr(Digit)>>),
                0, Unbounded, TRUE),
            Chr({"."}), Chr(Digit), Chr(Digit)>>))

amount_patterns ==
  << Cat(<<Lit(JSHJ), ColonAmt>>),
     Cat(<<Lit(JSHJ), Lazy, Lit(XX), ColonAmt>>),
     Cat(<<Lit(JSHJ), Lazy, Chr({"yen"}), Spaces, Amt>>),
     Cat(<<Lit(JSHJ), Lazy, Chr({"fwyen"}), Spaces, Amt>>),
     Cat(<<Lit(JSHJ), Spaces, Amt>>),
     Cat(<<Lit(JSHJ), Lazy, Chr({"("}), Chr({"yen"}), Spaces, Amt,
           Chr({")"})>>),
     Cat(<<Lit(JSHJ), Lazy, Chr({"("}), Chr({"fwyen"}), Spaces, Amt,
           Chr({")"})>>),
     Cat(<<Lit(JSHJ), Colon, Chr({"fwyen"}), Amt>>),
     Cat(<<Lit(JSHJ), Colon, Chr({"yen"}), Amt>>) >>

table_patterns ==
  << Cat(<<Alt(<<Cat(<<Chr({"he"}), Spaces, Chr({"ji"})>>),
                 Cat(<<Chr({"xiao"}), Spaces, Chr({"ji"})>>)>>),
           Lazy, Amt, Lazy, Amt, Lazy, Amt>>),
     Cat(<<Alt(<<Lit(SJHJ), Lit(HSHJ)>>), Lazy, Amt>>) >>

\* the last pattern opens with (?<!发票号码|\d), a look-behind whose branches
\* differ in width: re refuses to compile it
fallback_patterns ==
  << Cat(<<Chr({"he"}), Chr({"ji", "zong"}), Lit(<<"jin", "e">>), ColonAmt>>),
     Cat(<<Lit(XX), ColonAmt>>),
     Cat(<<Chr({"fwlp"}), Lit(XX), Chr({"fwrp"}), ColonAmt>>),
     Cat(<<Lit(<<"jin", "e">>), ColonAmt, Lazy, Lit(<<"shui", "e">>),
           ColonAmt>>),
     Cat(<<Lit(RMB), Colon, Spaces,
           Rep(Chr(CapitalNumerals), 1, Unbounded, TRUE), Spaces,
           Rep(Chr({"(", "fwlp"}), 0, 1, TRUE), Rep(Chr({"yen"}), 0, 1, TRUE),
           Amt>>),
     Cat(<<Chr({"yen", "fwyen"}), Spaces, Amt>>),
     Uncompilable >>

key_sections ==
  << JSHJ, SJHJ, HJJE, XX, DX, RMB, <<"R", "M", "B">>, <<"C", "H", "Y">>,
     <<"C", "N", "Y">> >>

\* what a part of the cascade did: returned a value (in cents), found
\* nothing, or raised
Found(v) == [kind |-> "value", value |-> v]

NotFound == [kind |-> "none", value |-> 0]

Raises == [kind |-> "raise", value |-> 0]

\* amount_str.replace(',', '')
replace_commas_never(amount_str) == amount_str
replace_commas(amount_str) == SelectSeq(amount_str, LAMBDA c : c # ",")

RECURSIVE DigitsValue(_, _)
DigitsValue(chars, acc) ==
  IF chars = <<>> THEN acc
  ELSE DigitsValue(Tail(chars),
         acc * 10 + (CHOOSE d \in 0..9 : ToString(d) = Head(chars)))

\* Decimal(amount_str) for a string that ends in a dot and two digits: the
\* value in cents, exactly; decimal.InvalidOperation for any other character
Decimal(amount_str) ==
  IF \A j \in 1..Len(amount_str) : amount_str[j] \in Digit \cup {"."}
  THEN Found(DigitsValue(SelectSeq(amount_str, LAMBDA c : c # "."), 0))
  ELSE Raises

\* what the body of `if matches:` returns for the first match, in tier 1
\* (matches[0]), tier 2 (the last group of matches[0]) and tier 3 (the sum of
\* the two groups of a tuple, else matches[0])
PickAmount(groups, tier) ==
  IF tier = 3 /\ Len(groups) >= 2
  THEN LET amt == Decimal(replace_commas(groups[1]))
           tax == Decimal(replace_commas(groups[2]))
       IN  IF amt.kind = "value" /\ tax.kind = "value"
           THEN Found(amt.value + tax.value)
           ELSE Decimal(replace_commas(groups[1]))
  ELSE IF tier = 2 THEN Decimal(replace_commas(Last(groups)))
  ELSE Decimal(replace_commas(groups[1]))

\* for pattern in <tier>: matches = re.findall(pattern, text) ..., from
\* pattern k on
RECURSIVE MatchTier(_, _, _, _)
MatchTier(pats, text, k, tier) ==
  IF k > Len(pats) THEN NotFound
  ELSE IF pats[k].k = "error" THEN Raises
  ELSE LET matches == re_findall(pats[k], text)
       IN  IF matches = <<>> THEN MatchTier(pats, text, k + 1, tier)
           ELSE PickAmount(matches[1], tier)

\* for section in key_sections: ..., from section k on
RECURSIVE KeySections(_, _)
KeySections(text, k) ==
  IF k > Len(key_sections) THEN NotFound
  ELSE LET match == re_search(Cat(<<Rep(Dot, 0, 50, TRUE),
                                    Lit(key_sections[k]),
                                    Rep(Dot, 0, 100, TRUE)>>), text)
           amount_match == IF match = <<>> THEN <<>>
                           ELSE re_findall(GroupedAmt, match[1])
       IN  IF amount_match # <<>>
           THEN Decimal(replace_commas(amount_match[1][1]))
           ELSE KeySections(text, k + 1)

\* the four tiers in order, on a non-empty text
AmountCascade(text) ==
  LET tier1 == MatchTier(amount_patterns, text, 1, 1)
      tier2 == MatchTier(table_patterns, text, 1, 2)
      tier3 == MatchTier(fallback_patterns, text, 1, 3)
      tier4 == KeySections(text, 1)
  IN  IF tier1.kind # "none" THEN tier1
      ELSE IF tier2.kind # "none" THEN tier2
      ELSE IF tier3.kind # "none" THEN tier3
      ELSE IF tier4.kind # "none" THEN tier4
      ELSE Found(0)

\* except Exception as e: ... return Decimal('0.00')
OnAmountError_propagate == [raised |-> TRUE, value |-> 0]
OnAmountError == [raised |-> FALSE, value |-> 0]

\* the text of the pages, a page without text adding nothing
RECURSIVE PagesChars(_)
PagesChars(pages) ==
  IF pages = <<>> THEN <<>>
  ELSE Head(pages).chars \o PagesChars(Tail(pages))

RECURSIVE PagesSegs(_)
PagesSegs(pages) ==
  IF pages = <<>> THEN <<>>
  ELSE Head(pages).segs \o PagesSegs(Tail(pages))

\* extract_amount_from_pdf(pdf_path) on the PDF doc: what the call does
PdfAmount(doc) ==
  LET text == PagesChars(doc.pages)
      found == AmountCascade(text)
  IN  IF ~doc.readable THEN OnAmountError
      ELSE IF text = <<>> THEN [raised |-> FALSE, value |-> 0]
      ELSE IF found.kind = "raise" THEN OnAmountError
      ELSE [raised |-> FALSE, value |-> found.value]

\* whether a page yields no text
IsBlank(page) == page.chars = <<>> /\ page.segs = <<>>

\* extract_invoice_number(pdf_path) on the PDF doc: page.extract_text() gives
\* None or "" for a page without text, by the version of pdfplumber, and
\* `text += None` raises into the handler that returns ""
PdfInvoiceNumber(doc, blank) ==
  IF ~doc.readable THEN NoNumber
  ELSE IF blank = "None" /\ \E j \in 1..Len(doc.pages) : IsBlank(doc.pages[j])
  THEN NoNumber
  ELSE extract_invoice_number(PagesSegs(doc.pages))

----------------------------------------------------------------------------
(* extract_company_info on a text.  Characters outside ASCII, by name:
     gou mai fang   购 买 方       xiao1 shou   销 售
     ming cheng     名 称          hao          号
     tong yi1 she hui xin yong dai ma   统 一 社 会 信 用 代 码
     na ren shi bie   纳 人 识 别  fwslash      ／
   A run of n characters of [0-9A-Z] standing between other characters is
   written as the one character Tn.                                        *)

GMF == <<"gou", "mai", "fang">>

XSF == <<"xiao1", "shou", "fang">>

MC == <<"ming", "cheng">>

SH == <<"shui", "hao">>

TYDM == <<"tong", "yi1", "she", "hui", "xin", "yong", "dai", "ma">>

NSRSBH == <<"na", "shui", "ren", "shi", "bie", "hao">>

\* the runs of [0-9A-Z] by length
RunLength == [T12 |-> 12, T15 |-> 15, T18 |-> 18]

\* [0-9A-Z]{lo,hi}
TaxRun(lo, hi) ==
  Chr({r \in DOMAIN RunLength : lo <= RunLength[r] /\ RunLength[r] <= hi})

\* ([0-9A-Z]{15,20})
TaxId == Grp(TaxRun(15, 20))

\* (.*?)(?:\s|$)
NameToSpace == Cat(<<Grp(Lazy), Alt(<<Chr(Space), Eos>>)>>)

buyer_name_patterns ==
  << Cat(<<Lit(GMF), Lit(MC), Colon, Spaces, NameToSpace>>),
     Cat(<<Lit(GMF), Colon, Spaces, NameToSpace>>),
     Cat(<<Lit(MC), Colon, Spaces, Grp(Lazy),
           Alt(<<Chr(Space), Lit(GMF), Eos>>)>>),
     Cat(<<Lit(GMF), Lazy, Lit(MC), Colon, Spaces, NameToSpace>>) >>

buyer_tax_patterns ==
  << Cat(<<Lit(GMF), Lazy, Lit(SH), Colon, Spaces, TaxId>>),
     Cat(<<Lit(GMF), Lazy, Lit(TYDM), Colon, Spaces, TaxId>>),
     Cat(<<Lit(GMF), Lazy, Lit(NSRSBH), Colon, Spaces, TaxId>>),
     Cat(<<Lit(NSRSBH), Colon, Spaces, TaxId>>),
     Cat(<<Lit(TYDM), Chr({"/"}), Lit(NSRSBH), Colon, Spaces, TaxId>>),
     Cat(<<Lit(TYDM), Lazy, Colon, Spaces, TaxId>>) >>

seller_name_patterns ==
  << Cat(<<Lit(XSF), Lit(MC), Colon, Spaces, NameToSpace>>),
     Cat(<<Lit(XSF), Colon, Spaces, NameToSpace>>),
     Cat(<<Lit(XSF), Lazy, Lit(MC), Colon, Spaces, NameToSpace>>) >>

seller_tax_patterns ==
  << Cat(<<Lit(XSF), Lazy, Lit(SH), Colon, Spaces, TaxId>>),
     Cat(<<Lit(XSF), Lazy, Lit(TYDM), Colon, Spaces, TaxId>>),
     Cat(<<Lit(XSF), Lazy, Lit(NSRSBH), Colon, Spaces, TaxId>>) >>

\* 统一社会信用代码[/／]?纳税人识别号[:：]?\s*([0-9A-Z]{15,20})
tax_id_pattern ==
  Cat(<<Lit(TYDM), Rep(Chr({"/", "fwslash"}), 0, 1, TRUE), Lit(NSRSBH),
        Rep(Colon, 0, 1, TRUE), Spaces, TaxId>>)

\* 名称[：:]\s*(.*?)(?:\s|$)
special_name_pattern == Cat(<<Lit(MC), Colon, Spaces, NameToSpace>>)

\* 统一社会信用代码[/／]纳税人识别号[：:]\s*([0-9A-Z]+)
special_tax_id_pattern ==
  Cat(<<Lit(TYDM), Chr({"/", "fwslash"}), Lit(NSRSBH), Colon, Spaces,
        Grp(Rep(TaxRun(1, Unbounded), 1, Unbounded, TRUE))>>)

\* result = {'buyer_name': '', 'buyer_tax_id': '', 'seller_name': '', ...}
EmptyInfo ==
  [buyer_name |-> <<>>, buyer_tax_id |-> <<>>, seller_name |-> <<>>,
   seller_tax_id |-> <<>>]

\* str.strip()
RECURSIVE strip(_)
strip(str) ==
  IF str = <<>> THEN str
  ELSE IF Head(str) \in Space THEN strip(Tail(str))
  ELSE IF Last(str) \in Space THEN strip(SubSeq(str, 1, Len(str) - 1))
  ELSE str

\* str.split(sep) for a separator of one character
RECURSIVE split(_, _)
split(str, sep) ==
  IF \A j \in 1..Len(str) : str[j] # sep THEN <<str>>
  ELSE LET j == CHOOSE j \in 1..Len(str) :
                  str[j] = sep /\ \A m \in 1..(j - 1) : str[m] # sep
       IN  <<SubSeq(str, 1, j - 1)>>
             \o split(SubSeq(str, j + 1, Len(str)), sep)

\* word in str
Contains(str, word) ==
  \E j \in 0..(Len(str) - Len(word)) : SubSeq(str, j + 1, j + Len(word)) = word

\* for pattern in <patterns>: if matches and matches[0].strip(): ... break,
\* from pattern k on; <<>> when no pattern gives a value
RECURSIVE FirstValue(_, _, _)
FirstValue(pats, text, k) ==
  IF k > Len(pats) THEN <<>>
  ELSE LET matches == re_findall(pats[k], text)
       IN  IF matches # <<>> /\ strip(matches[1][1]) # <<>>
           THEN strip(matches[1][1])
           ELSE FirstValue(pats, text, k + 1)

\* the four pattern lists (lines 372-426)
DirectPatterns(text) ==
  [buyer_name |-> FirstValue(buyer_name_patterns, text, 1),
   buyer_tax_id |-> FirstValue(buyer_tax_patterns, text, 1),
   seller_name |-> FirstValue(seller_name_patterns, text, 1),
   seller_tax_id |-> FirstValue(seller_tax_patterns, text, 1)]

\* the body of `for line in lines`, from line k on
RECURSIVE ScanLines(_, _, _)
ScanLines(info, lines, k) ==
  IF k > Len(lines) THEN info
  ELSE LET line == lines[k]
           parts == split(line, ":")
           next == IF Contains(line, MC) /\ Contains(line, <<":">>)
                      /\ Len(parts) >= 2
                   THEN IF Contains(parts[1], GMF)
                        THEN [info EXCEPT !.buyer_name = strip(parts[2])]
                        ELSE IF Contains(parts[1], XSF)
                        THEN [info EXCEPT !.seller_name = strip(parts[2])]
                        ELSE info
                   ELSE info
       IN  ScanLines(next, lines, k + 1)

\* if not result['buyer_name'] or not result['seller_name']: the line scan
LineScan(info, text) ==
  IF info.buyer_name = <<>> \/ info.seller_name = <<>>
  THEN ScanLines(info, split(text, "\n"), 1)
  ELSE info

\* if not result['buyer_tax_id'] or not result['seller_tax_id']: the
\* combined label
CombinedLabel(info, text) ==
  LET matches == re_findall(tax_id_pattern, text)
  IN  IF (info.buyer_tax_id = <<>> \/ info.seller_tax_id = <<>>)
         /\ matches # <<>>
      THEN IF info.buyer_tax_id = <<>>
           THEN [info EXCEPT !.buyer_tax_id = matches[1][1]]
           ELSE IF info.seller_tax_id = <<>> /\ Len(matches) > 1
           THEN [info EXCEPT !.seller_tax_id = matches[2][1]]
           ELSE info
      ELSE info

\* the two occurrences of a name label and of a combined label
DualOccurrence(info, text) ==
  LET special_name_matches == re_findall(special_name_pattern, text)
      special_tax_id_matches == re_findall(special_tax_id_pattern, text)
      names == Len(special_name_matches) >= 2
      taxes == Len(special_tax_id_matches) >= 2
  IN  [buyer_name |->
         IF names /\ info.buyer_name = <<>>
         THEN strip(special_name_matches[1][1]) ELSE info.buyer_name,
       seller_name |->
         IF names /\ info.seller_name = <<>>
         THEN strip(special_name_matches[2][1]) ELSE info.seller_name,
       buyer_tax_id |->
         IF taxes /\ info.buyer_tax_id = <<>>
         THEN strip(special_tax_id_matches[1][1]) ELSE info.buyer_tax_id,
       seller_tax_id |->
         IF taxes /\ info.seller_tax_id = <<>>
         THEN strip(special_tax_id_matches[2][1]) ELSE info.seller_tax_id]

\* extract_company_info(pdf_path, text)
extract_company_info(text) ==
  DualOccurrence(CombinedLabel(LineScan(DirectPatterns(text),
                                        text), text), text)

----------------------------------------------------------------------------
(* PDF contents and the two extractors as the batch loop calls them *)

Seg(label, id, len) == [label |-> label, digits |-> Digits(id, len)]

\* the PDF contents of the batch runs: the segments of the text, the amount
\* (in cents) the amount cascade finds in it, and whether any page has text
Contents ==
  { [segs |-> <<>>, amt |-> 0, hastext |-> FALSE],
    [segs |-> <<>>, amt |-> 10, hastext |-> TRUE],
    [segs |-> <<Seg("FPHM:", "A", 8)>>, amt |-> 10000, hastext |-> TRUE],
    [segs |-> <<Seg("No.", "B", 20)>>, amt |-> 25050, hastext |-> TRUE],
    [segs |-> <<Seg("FPHM:", "A", 8)>>, amt |-> 0, hastext |-> TRUE] }

\* extract_invoice_number(pdf_path): a page without text makes
\* `text += page.extract_text()` raise, and the handler returns ""
InvoiceNumberOfPdf(content) ==
  IF content.hastext THEN extract_invoice_number(content.segs) ELSE NoNumber

\* extract_amount_from_pdf(pdf_path): Decimal('0.00') without text
extract_amount_from_pdf(content) ==
  IF content.hastext THEN content.amt ELSE 0

----------------------------------------------------------------------------
(* move_duplicate_invoice *)

NoPath == [dir |-> <<>>, name |-> [stem |-> "", ts |-> <<>>, ext |-> ""]]

\* os.path.join(tmp_dir, filename), with the timestamp when that exists
TargetPath(pdf_path, files, timestamp) ==
  LET plain == [dir |-> <<QuarantineName>>, name |-> pdf_path.name]
  IN  IF plain \in files
      THEN [dir |-> <<QuarantineName>>,
            name |-> [pdf_path.name EXCEPT !.ts = Append(@, timestamp)]]
      ELSE plain

\* move_duplicate_invoice(pdf_path, tmp_dir): the returned path (NoPath for
\* None) and the disk afterwards
move_duplicate_invoice(pdf_path, d, tmpexists, outcome, timestamp) ==
  LET target == TargetPath(pdf_path, DOMAIN d, timestamp)
      moved == [p \in (DOMAIN d \ {pdf_path}) \cup {target} |->
                  IF p = target THEN d[pdf_path] ELSE d[p]]
  IN  IF outcome = "makedirs_fails" /\ ~tmpexists
      THEN [ret |-> NoPath, disk |-> d, tmp |-> FALSE]
      ELSE IF outcome = "move_fails" \/ pdf_path \notin DOMAIN d
      THEN [ret |-> NoPath, disk |-> d, tmp |-> TRUE]
      ELSE [ret |-> target, disk |-> moved, tmp |-> TRUE]

\* whether the relocation reads the clock
ReadsClock(pdf_path, d, tmpexists, outcome) ==
  /\ ~(outcome = "makedirs_fails" /\ ~tmpexists)
  /\ [dir |-> <<QuarantineName>>, name |-> pdf_path.name] \in DOMAIN d

----------------------------------------------------------------------------
(* The steps of the loop body of WorkerThread.run *)

\* if invoice_number and invoice_number in processed_invoice_numbers
IsDuplicate_never(number, processed) == FALSE
IsDuplicate(number, processed) ==
  number # NoNumber /\ number \in DOMAIN processed

\* `continue  # 跳过后续处理`: the rest of the body runs only when the
\* document was not flagged
RunsAmountBranch_always(flagged) == TRUE
RunsAmountBranch(flagged) == ~flagged

\* duplicate_info, with 'moved_to' set only when the move returned a path
duplicate_info_always(pdf_path, number, original, moved) ==
  [path |-> pdf_path, filename |-> pdf_path.name, invoice_number |-> number,
   original_path |-> original, moved_to |-> moved]
duplicate_info(pdf_path, number, original, moved) ==
  LET info == [path |-> pdf_path, filename |-> pdf_path.name,
               invoice_number |-> number, original_path |-> original]
  IN  IF moved # NoPath
      THEN [path |-> pdf_path, filename |-> pdf_path.name,
            invoice_number |-> number, original_path |-> original,
            moved_to |-> moved]
      ELSE info

\* processed_invoice_numbers[invoice_number]['path']
OriginalPath_none(processed, number) == NoPath
OriginalPath(processed, number) == processed[number].path

\* success_info
success_info(pdf_path, amount, number) ==
  [path |-> pdf_path, filename |-> pdf_path.name, amount |-> amount,
   invoice_number |-> number]

\* if amount > 0
IsSuccess_always(amount) == TRUE
IsSuccess(amount) == amount > 0

\* total_amount += amount, on Decimals with two fraction digits
AddAmount_truncated(total, amount) == total + (amount \div 100) * 100
AddAmount(total, amount) == total + amount

\* if invoice_number: processed_invoice_numbers[invoice_number] = success_info
Register_always(processed, number, info) ==
  [n \in DOMAIN processed \cup {number} |->
     IF n = number THEN info ELSE processed[n]]
Register(processed, number, info) ==
  IF number # NoNumber
  THEN [n \in DOMAIN processed \cup {number} |->
          IF n = number THEN info ELSE processed[n]]
  ELSE processed

\* except Exception as e: failed_list.append(pdf_path)
OnException_drop(failed, pdf_path) == failed
OnException(failed, pdf_path) == Append(failed, pdf_path)

----------------------------------------------------------------------------
(* The summary shown by processing_finished *)

DigitChars == <<"0", "1", "2", "3", "4", "5", "6", "7", "8", "9">>

RECURSIVE IntDigits(_)
IntDigits(n) ==
  IF n < 10 THEN <<DigitChars[n + 1]>>
  ELSE IntDigits(n \div 10) \o <<DigitChars[(n % 10) + 1]>>

Pad2(n) == <<DigitChars[(n \div 10) + 1], DigitChars[(n % 10) + 1]>>

Pad3(n) == <<DigitChars[(n \div 100) + 1]>> \o Pad2(n % 100)

RECURSIVE Grouped(_)
Grouped(n) ==
  IF n < 1000 THEN IntDigits(n)
  ELSE Grouped(n \div 1000) \o <<",">> \o Pad3(n % 1000)

\* "{:,.2f}".format(total_amount)
formatted_amount(cents) == Grouped(cents \div 100) \o <<".">> \o Pad2(cents % 100)

NoText == [shown |-> FALSE]

NoResult == [emitted |-> FALSE]

NoFile == [exists |-> FALSE, lines |-> <<>>]

EmptyDict == [n \in {} |-> NoPath]

----------------------------------------------------------------------------
(* Initial state: the window after construction, no directory selected, on a
   disk that holds up to MaxDocs PDFs below the root *)

DocPaths ==
  << Path(<<>>, "a", ".pdf"),
     Path(<<"s1">>, "a", ".pdf"),
     Path(<<"s2">>, "a", ".PDF"),
     Path(<<"s3">>, "a", ".pdf"),
     Path(<<"s4">>, "a", ".pdf") >>

InitDisks ==
  UNION { [{DocPaths[i] : i \in 1..k} -> Contents] :
          k \in 0..Min(MaxDocs, Len(DocPaths)) }

\* no PDF or text has been handed to an extractor
NoPdf == [readable |-> FALSE, pages |-> <<>>]

AmountUnset == [raised |-> FALSE, value |-> -1]

\* for handler in logger.handlers: logger.removeHandler(handler), from the
\* i-th step of the iteration on: the list shrinks under the iterator
RECURSIVE RemoveWhileIterating(_, _)
RemoveWhileIterating(hs, i) ==
  IF i > Len(hs) THEN hs
  ELSE RemoveWhileIterating(SubSeq(hs, 1, i - 1) \o SubSeq(hs, i + 1, Len(hs)),
                            i + 1)

\* setup_logging(enable_logging=...): the handlers of the logger afterwards
setup_logging(hs, enable_logging) ==
  RemoveWhileIterating(hs, 1) \o <<"console">>
    \o (IF enable_logging THEN <<"file">> ELSE <<>>)

\* logger = setup_logging(enable_logging=False), when the module is loaded
InitialLogger ==
  [handlers |-> setup_logging(<<>>, FALSE), calls |-> <<FALSE>>]

InitExtractors ==
  /\ pdf = NoPdf
  /\ amount_result = AmountUnset
  /\ company_text = <<>>
  /\ company_info = EmptyInfo
  /\ company_pc = 0
  /\ logger = InitialLogger

InitWindow ==
  /\ dir_path = Unselected
  /\ start_enabled = FALSE
  /\ dir_enabled = TRUE
  /\ save_text_checked = FALSE
  /\ clean_files_checked = TRUE
  /\ enable_logging_checked = FALSE
  /\ results_text = NoText
  /\ logger_level = "INFO"

InitLocals ==
  /\ all_pdf_files = <<>>
  /\ index = 0
  /\ emitted_progress = <<0, 0>>
  /\ total_amount = 0
  /\ total_count = 0
  /\ failed_count = 0
  /\ duplicate_count = 0
  /\ failed_list = <<>>
  /\ success_list = <<>>
  /\ duplicate_list = <<>>
  /\ processed_invoice_numbers = EmptyDict
  /\ result = NoResult
  /\ log = <<>>

\* no execution of run() is recorded
NoHistory == [recording |-> FALSE, batches |-> <<>>]

InitWorker ==
  /\ worker = [directory |-> Unselected, save_debug_text |-> FALSE,
               enable_logging |-> FALSE]
  /\ pc = "none"
  /\ runs = 0
  /\ history = NoHistory
  /\ InitLocals

Init ==
  /\ dir_state = "dir"
  /\ disk \in InitDisks
  /\ tmp_dir_exists = FALSE
  /\ failed_file = NoFile
  /\ duplicate_file = NoFile
  /\ log_file_exists = FALSE
  /\ text_files = {}
  /\ now = 1
  /\ InitWindow
  /\ InitWorker
  /\ num_text = <<>>
  /\ invoice_number = Unset
  /\ InitExtractors

----------------------------------------------------------------------------
(* The window *)

\* the user ticks or unticks "save extracted text" before the first batch
ToggleSaveText ==
  /\ pc = "none"
  /\ save_text_checked' = ~save_text_checked
  /\ UNCHANGED <<envVars, tallyVars, workerVars, numVars, dir_path,
                 start_enabled, dir_enabled, clean_files_checked,
                 enable_logging_checked, results_text, logger_level>>

\* toggle_logging: setup_logging(enable_logging) opens the log file
toggle_logging ==
  /\ pc = "none"
  /\ enable_logging_checked' = ~enable_logging_checked
  /\ logger_level' = "INFO"
  /\ log_file_exists' = (log_file_exists \/ enable_logging_checked')
  /\ UNCHANGED <<dir_state, disk, tmp_dir_exists, failed_file, duplicate_file,
                 text_files, now, tallyVars, workerVars, numVars, dir_path,
                 start_enabled, dir_enabled, save_text_checked,
                 clean_files_checked, results_text>>

\* select_directory: the dialog returns the root
select_directory ==
  /\ dir_enabled
  /\ dir_path' = RootName
  /\ start_enabled' = (/\ dir_state = "dir"
                       /\ \E p \in DOMAIN disk : IsPdfName(p.name))
  /\ UNCHANGED <<envVars, tallyVars, workerVars, numVars, dir_enabled,
                 save_text_checked, clean_files_checked,
                 enable_logging_checked, results_text, logger_level>>

\* the environment removes the root, or replaces it by a plain file, before
\* the batch is started
DirectoryRemoved ==
  /\ pc = "none"
  /\ dir_state = "dir"
  /\ dir_state' \in {"missing", "file"}
  /\ disk' = EmptyDict
  /\ tmp_dir_exists' = FALSE
  /\ text_files' = {}
  /\ UNCHANGED <<failed_file, duplicate_file, log_file_exists, now, uiVars,
                 tallyVars, workerVars, numVars>>

\* self.start_button.setEnabled(False), self.dir_button.setEnabled(False)
DisabledAtStart_kept(enabled) == enabled
DisabledAtStart(enabled) == FALSE

\* start_processing, while fewer than limit batches have been started
StartProcessing(limit) ==
  /\ start_enabled
  /\ runs < limit
  /\ runs' = runs + 1
  /\ start_enabled' = DisabledAtStart(start_enabled)
  /\ dir_enabled' = DisabledAtStart(dir_enabled)
  /\ results_text' = NoText
  /\ logger_level' = "INFO"
  /\ log_file_exists' = (log_file_exists \/ enable_logging_checked)
  /\ failed_file' = IF clean_files_checked THEN NoFile ELSE failed_file
  /\ text_files' = IF clean_files_checked /\ save_text_checked
                   THEN {} ELSE text_files
  /\ worker' = [directory |-> dir_path, save_debug_text |-> save_text_checked,
                enable_logging |-> enable_logging_checked]
  /\ pc' = "start"
  /\ UNCHANGED <<dir_state, disk, tmp_dir_exists, duplicate_file, now,
                 dir_path, save_text_checked, clean_files_checked,
                 enable_logging_checked, tallyVars, all_pdf_files, index,
                 emitted_progress, result, log, history, numVars>>

start_processing == StartProcessing(MaxRuns)

\* processing_finished(result)
processing_finished ==
  /\ result # NoResult
  /\ start_enabled' = TRUE
  /\ dir_enabled' = TRUE
  /\ results_text' =
       IF ~result.success THEN results_text
       ELSE [shown |-> TRUE,
             total |-> result.total_count + result.failed_count
                         + result.duplicate_count,
             success |-> result.total_count,
             failed |-> result.failed_count,
             duplicates |-> result.duplicate_count,
             amount |-> formatted_amount(result.total_amount)]
  /\ result' = NoResult
  /\ UNCHANGED <<envVars, tallyVars, numVars, dir_path, save_text_checked,
                 clean_files_checked, enable_logging_checked, logger_level,
                 worker, pc, all_pdf_files, index, emitted_progress, log,
                 runs, history>>

----------------------------------------------------------------------------
(* WorkerThread.run *)

\* what can go wrong before the loop: setup_logging cannot open the log file
RunFaults == {"none", "logging_raises"}

\* except Exception as e (the handler around the whole of run)
OnRunError_silent == [emitted |-> FALSE]
OnRunError == [emitted |-> TRUE, success |-> FALSE, error |-> "exception"]

\* processed_invoice_numbers = {} at the start of every batch
ResetProcessed_kept(processed) == processed
ResetProcessed(processed) == [n \in {} |-> NoPath]

\* the counts a finished_processing payload carries
Aggregates(payload) ==
  IF payload.emitted /\ payload.success
  THEN [success |-> TRUE, total_amount |-> payload.total_amount,
        total_count |-> payload.total_count,
        failed_count |-> payload.failed_count,
        duplicate_count |-> payload.duplicate_count]
  ELSE [success |-> FALSE]

\* the entry of the history for an execution of run() that starts now and
\* has emitted the payload (NoResult: nothing yet)
RunStarted(payload) ==
  [root |-> disk,
   cleaned |-> ~tmp_dir_exists /\ ~failed_file.exists
                 /\ ~duplicate_file.exists,
   emits |-> IF payload.emitted THEN 1 ELSE 0,
   raised |-> FALSE,
   outcome |-> Aggregates(payload)]

\* run(), up to the loop: the counters, the validation of the directory and
\* the walk
RunBegin(fault) ==
  /\ pc = "start"
  /\ fault = "logging_raises"
       => worker.save_debug_text /\ worker.enable_logging
  /\ logger_level' = IF ~worker.save_debug_text THEN logger_level
                     ELSE IF fault = "logging_raises" THEN "INFO"
                     ELSE "DEBUG"
  /\ log_file_exists' = (log_file_exists \/
                          (worker.save_debug_text /\ worker.enable_logging
                             /\ fault = "none"))
  /\ total_amount' = 0
  /\ total_count' = 0
  /\ failed_count' = 0
  /\ duplicate_count' = 0
  /\ failed_list' = <<>>
  /\ success_list' = <<>>
  /\ duplicate_list' = <<>>
  /\ processed_invoice_numbers' = ResetProcessed(processed_invoice_numbers)
  /\ log' = <<>>
  /\ index' = 0
  /\ IF fault = "logging_raises"
     THEN /\ all_pdf_files' = <<>>
          /\ pc' = "done"
          /\ result' = OnRunError
     ELSE IF DirectoryValid(dir_state)
     THEN /\ all_pdf_files' = Walk(DOMAIN disk, worker.directory)
          /\ pc' = "loop"
          /\ result' = NoResult
     ELSE /\ all_pdf_files' = <<>>
          /\ pc' = "done"
          /\ result' = [emitted |-> TRUE, success |-> FALSE,
                        error |-> IF dir_state = "missing"
                                  THEN "not_exists" ELSE "not_a_directory"]
  /\ history' = IF history.recording
                THEN [history EXCEPT !.batches = Append(@, RunStarted(result'))]
                ELSE history
  /\ UNCHANGED <<dir_state, disk, tmp_dir_exists, failed_file, duplicate_file,
                 text_files, now, dir_path, start_enabled, dir_enabled,
                 save_text_checked, clean_files_checked,
                 enable_logging_checked, results_text, worker,
                 emitted_progress, runs, numVars>>

\* what can go wrong in one iteration: a helper lets an exception escape
\* (its own handler's error report raises), or the relocation fails
Faults == {"none", "amount_raises", "move_raises", "makedirs_fails",
           "move_fails"}

\* self.update_progress.emit(index + 1, total_files)
ProgressEvent_completed(i, total) == <<i, total>>
ProgressEvent(i, total) == <<i + 1, total>>

\* the body of the loop after the progress event: the document at the index
\* is classified and recorded
LoopBody(fault, timestamp) ==
  /\ index < Len(all_pdf_files)
  /\ LET pdf_path == all_pdf_files[index + 1]
         readable == pdf_path \in DOMAIN disk
         content == IF readable THEN disk[pdf_path]
                    ELSE [segs |-> <<>>, amt |-> 0, hastext |-> FALSE]
         number == InvoiceNumberOfPdf(content)
         flagged == IsDuplicate(number, processed_invoice_numbers)
         outcome == IF fault \in {"makedirs_fails", "move_fails"} THEN fault
                    ELSE IF fault = "move_raises" THEN "move_fails" ELSE "ok"
         mv == move_duplicate_invoice(pdf_path, disk, tmp_dir_exists,
                                      outcome, timestamp)
         original == OriginalPath(processed_invoice_numbers, number)
         dupinfo == duplicate_info(pdf_path, number, original, mv.ret)
         called == RunsAmountBranch(flagged) /\ fault # "amount_raises"
         amount == extract_amount_from_pdf(content)
         info == success_info(pdf_path, amount, number)
         ok == called /\ IsSuccess(amount)
         raised == \/ (fault = "move_raises" /\ flagged)
                   \/ (fault = "amount_raises" /\ RunsAmountBranch(flagged))
         failed == raised \/ (called /\ ~IsSuccess(amount))
     IN
       \* a fault is an input only where it can occur
       /\ fault \in {"move_raises", "makedirs_fails", "move_fails"} => flagged
       /\ fault = "makedirs_fails" => ~tmp_dir_exists
       /\ fault = "amount_raises" => RunsAmountBranch(flagged)
       /\ IF flagged /\ ReadsClock(pdf_path, disk, tmp_dir_exists, outcome)
          THEN timestamp >= now /\ now' = timestamp
          ELSE timestamp = now /\ now' = now
       /\ duplicate_count' = IF flagged THEN duplicate_count + 1
                             ELSE duplicate_count
       /\ duplicate_list' = IF flagged THEN Append(duplicate_list, dupinfo)
                            ELSE duplicate_list
       /\ disk' = IF flagged THEN mv.disk ELSE disk
       /\ tmp_dir_exists' = IF flagged THEN mv.tmp ELSE tmp_dir_exists
       /\ text_files' = IF called /\ logger_level = "DEBUG" /\ content.hastext
                        THEN text_files \cup {pdf_path} ELSE text_files
       /\ total_amount' = IF ok THEN AddAmount(total_amount, amount)
                          ELSE total_amount
       /\ total_count' = IF ok THEN total_count + 1 ELSE total_count
       /\ success_list' = IF ok THEN Append(success_list, info)
                          ELSE success_list
       /\ processed_invoice_numbers' =
            IF ok THEN Register(processed_invoice_numbers, number, info)
            ELSE processed_invoice_numbers
       /\ failed_count' = IF failed THEN failed_count + 1 ELSE failed_count
       /\ failed_list' = IF raised THEN OnException(failed_list, pdf_path)
                         ELSE IF failed THEN Append(failed_list, pdf_path)
                         ELSE failed_list
       /\ log' = Append(log, [path |-> pdf_path,
                              invoice_number |-> number,
                              flagged |-> flagged,
                              amount_called |-> called
                                  \/ (fault = "amount_raises"
                                        /\ RunsAmountBranch(flagged)),
                              raised |-> raised,
                              moved |-> IF flagged THEN mv.ret ELSE NoPath])
       /\ index' = index + 1
       /\ history' =
            IF history.recording
            THEN [history EXCEPT
                    !.batches[Len(history.batches)].raised = @ \/ raised]
            ELSE history
  /\ UNCHANGED <<dir_state, failed_file, duplicate_file, log_file_exists,
                 uiVars, worker, all_pdf_files, result, runs, numVars>>

\* one iteration of `for index, pdf_path in enumerate(all_pdf_files)`
ProcessDocument(fault, timestamp) ==
  /\ pc = "loop"
  /\ emitted_progress' = ProgressEvent(index, Len(all_pdf_files))
  /\ LoopBody(fault, timestamp)
  /\ UNCHANGED pc

\* the iteration in two steps, as the window sees it: the progress event
\* first
EmitProgress ==
  /\ pc = "loop"
  /\ index < Len(all_pdf_files)
  /\ emitted_progress' = ProgressEvent(index, Len(all_pdf_files))
  /\ pc' = "body"
  /\ UNCHANGED <<envVars, uiVars, tallyVars, worker, all_pdf_files, index,
                 result, log, runs, history, numVars>>

\* and then the rest of the iteration
FinishDocument(fault, timestamp) ==
  /\ pc = "body"
  /\ LoopBody(fault, timestamp)
  /\ pc' = "loop"
  /\ UNCHANGED emitted_progress

\* run(), after the loop: the two report files and finished_processing
RunEnd ==
  /\ pc = "loop"
  /\ index = Len(all_pdf_files)
  /\ failed_file' = IF failed_list # <<>>
                    THEN [exists |-> TRUE, lines |-> failed_list]
                    ELSE failed_file
  /\ duplicate_file' = IF duplicate_list # <<>>
                       THEN [exists |-> TRUE, lines |-> duplicate_list]
                       ELSE duplicate_file
  /\ result' = [emitted |-> TRUE, success |-> TRUE,
                total_amount |-> total_amount, total_count |-> total_count,
                failed_count |-> failed_count,
                duplicate_count |-> duplicate_count,
                failed_list |-> failed_list, success_list |-> success_list,
                duplicate_list |-> duplicate_list]
  /\ pc' = "done"
  /\ history' =
       IF history.recording
       THEN [history EXCEPT !.batches[Len(history.batches)] =
               [@ EXCEPT !.emits = @ + 1, !.outcome = Aggregates(result')]]
       ELSE history
  /\ UNCHANGED <<dir_state, disk, tmp_dir_exists, log_file_exists, text_files,
                 now, uiVars, tallyVars, worker, all_pdf_files, index,
                 emitted_progress, log, runs, numVars>>

----------------------------------------------------------------------------
(* The batch tool *)

Next ==
  \/ ToggleSaveText
  \/ toggle_logging
  \/ select_directory
  \/ DirectoryRemoved
  \/ start_processing
  \/ \E fault \in RunFaults : RunBegin(fault)
  \/ \E fault \in Faults, timestamp \in 1..MaxClock :
       ProcessDocument(fault, timestamp)
  \/ RunEnd
  \/ processing_finished

Spec == Init /\ [][Next]_vars

----------------------------------------------------------------------------
(* The walk on its own: a worker started on an arbitrary tree *)

WalkContent ==
  [segs |-> <<Seg("FPHM:", "A", 8)>>, amt |-> 10000, hastext |-> TRUE]

InitWalk ==
  /\ dir_state \in {"dir", "missing", "file"}
  /\ disk \in IF dir_state = "dir"
              THEN {[p \in files |-> WalkContent] :
                      files \in SUBSET Range(ListingOrder)}
              ELSE {EmptyDict}
  /\ tmp_dir_exists = (\E p \in DOMAIN disk : InQuarantine(p))
  /\ failed_file = NoFile
  /\ duplicate_file = NoFile
  /\ log_file_exists = FALSE
  /\ text_files = {}
  /\ now = 1
  /\ dir_path \in {RootName, QuarantineName}
  /\ start_enabled = FALSE
  /\ dir_enabled = FALSE
  /\ save_text_checked = FALSE
  /\ clean_files_checked = TRUE
  /\ enable_logging_checked = FALSE
  /\ results_text = NoText
  /\ logger_level = "INFO"
  /\ InitLocals
  /\ worker = [directory |-> dir_path, save_debug_text |-> FALSE,
               enable_logging |-> FALSE]
  /\ pc = "start"
  /\ runs = 1
  /\ history = NoHistory
  /\ num_text = <<>>
  /\ invoice_number = Unset
  /\ InitExtractors

NextWalk == RunBegin("none")

SpecWalk == InitWalk /\ [][NextWalk]_vars

----------------------------------------------------------------------------
(* The batch run again: the window with the root selected and both boxes
   ticked, the batch started up to MaxRuns + 1 times within one tick of the
   clock, and between two batches the user may clean up what the last one
   left behind *)

\* the records of the duplicate report that name a file still in quarantine
\* whose place in the tree is free
Restorable(d, report) ==
  {k \in 1..Len(report.lines) :
     /\ "moved_to" \in DOMAIN report.lines[k]
     /\ report.lines[k].moved_to \in DOMAIN d
     /\ report.lines[k].path \notin DOMAIN d}

\* the tree without tmp_duplicates; with restore, the files the duplicate
\* report lists as moved are first put back where they were
CleanedDisk(d, report, restore) ==
  LET back == IF restore THEN Restorable(d, report) ELSE {}
      kept == {p \in DOMAIN d : ~InQuarantine(p)}
      home == {report.lines[k].path : k \in back}
  IN  [p \in kept \cup home |->
         IF p \in kept THEN d[p]
         ELSE d[report.lines[CHOOSE k \in back :
                                report.lines[k].path = p].moved_to]]

\* between two batches the user removes tmp_duplicates, failed_fapiao.txt and
\* duplicate_fapiao.txt
CleanUp(restore) ==
  /\ pc = "done"
  /\ result = NoResult
  /\ tmp_dir_exists \/ failed_file.exists \/ duplicate_file.exists
  /\ disk' = CleanedDisk(disk, duplicate_file, restore)
  /\ tmp_dir_exists' = FALSE
  /\ failed_file' = NoFile
  /\ duplicate_file' = NoFile
  /\ UNCHANGED <<dir_state, log_file_exists, text_files, now, uiVars,
                 tallyVars, workerVars, numVars>>

\* documents that share the invoice number A, with and without an amount,
\* and a document without text
RerunContents == {c \in Contents : c.segs = <<Seg("FPHM:", "A", 8)>>
                                     \/ ~c.hastext}

RerunDisks ==
  UNION { [{DocPaths[i] : i \in 1..k} -> RerunContents] :
          k \in 0..Min(MaxDocs, Len(DocPaths)) }

InitRerun ==
  /\ dir_state = "dir"
  /\ disk \in RerunDisks
  /\ tmp_dir_exists = FALSE
  /\ failed_file = NoFile
  /\ duplicate_file = NoFile
  /\ text_files = {}
  /\ now = 1
  /\ dir_path = RootName
  /\ start_enabled = (\E p \in DOMAIN disk : IsPdfName(p.name))
  /\ dir_enabled = TRUE
  /\ save_text_checked = TRUE
  /\ enable_logging_checked = TRUE
  /\ log_file_exists = TRUE
  /\ clean_files_checked = TRUE
  /\ results_text = NoText
  /\ logger_level = "INFO"
  /\ worker = [directory |-> Unselected, save_debug_text |-> FALSE,
               enable_logging |-> FALSE]
  /\ pc = "none"
  /\ runs = 0
  /\ history = [recording |-> TRUE, batches |-> <<>>]
  /\ InitLocals
  /\ num_text = <<>>
  /\ invoice_number = Unset
  /\ InitExtractors

NextRerun ==
  \/ DirectoryRemoved
  \/ StartProcessing(MaxRuns + 1)
  \/ \E fault \in RunFaults : RunBegin(fault)
  \/ \E fault \in Faults : ProcessDocument(fault, now)
  \/ RunEnd
  \/ processing_finished
  \/ \E restore \in BOOLEAN : CleanUp(restore)

SpecRerun == InitRerun /\ [][NextRerun]_vars

----------------------------------------------------------------------------
(* The batch under fair scheduling: the worker thread takes its steps, and
   the event loop of the window delivers finished_processing to
   processing_finished *)

NextFair ==
  \/ DirectoryRemoved
  \/ start_processing
  \/ \E fault \in RunFaults : RunBegin(fault)
  \/ \E fault \in Faults : ProcessDocument(fault, now)
  \/ RunEnd
  \/ processing_finished

SpecFair ==
  /\ InitRerun
  /\ [][NextFair]_vars
  /\ WF_vars(\E fault \in RunFaults : RunBegin(fault))
  /\ WF_vars(\E fault \in Faults : ProcessDocument(fault, now))
  /\ WF_vars(RunEnd)
  /\ WF_vars(processing_finished)

----------------------------------------------------------------------------
(* The batch as the window sees it: the progress event of an iteration and
   the rest of the iteration are separate steps *)

NextProgress ==
  \/ start_processing
  \/ \E fault \in RunFaults : RunBegin(fault)
  \/ EmitProgress
  \/ \E fault \in Faults : FinishDocument(fault, now)
  \/ RunEnd
  \/ processing_finished

SpecProgress == InitRerun /\ [][NextProgress]_vars

----------------------------------------------------------------------------
(* The window while a batch runs: the user may tick and untick the boxes and
   press every button that is enabled, at any time *)

\* the user changes "save extracted text" or "error log" (whose handler is
\* toggle_logging), also while the worker runs
CheckboxToggled(box) ==
  /\ save_text_checked' = IF box = "save_text" THEN ~save_text_checked
                          ELSE save_text_checked
  /\ enable_logging_checked' = IF box = "enable_logging"
                               THEN ~enable_logging_checked
                               ELSE enable_logging_checked
  /\ logger_level' = IF box = "enable_logging" THEN "INFO" ELSE logger_level
  /\ log_file_exists' = (log_file_exists \/
                           (box = "enable_logging" /\ enable_logging_checked'))
  /\ UNCHANGED <<dir_state, disk, tmp_dir_exists, failed_file, duplicate_file,
                 text_files, now, tallyVars, workerVars, numVars, dir_path,
                 start_enabled, dir_enabled, clean_files_checked,
                 results_text>>

InitButtons ==
  /\ dir_state = "dir"
  /\ disk \in RerunDisks
  /\ tmp_dir_exists = FALSE
  /\ failed_file = NoFile
  /\ duplicate_file = NoFile
  /\ log_file_exists = FALSE
  /\ text_files = {}
  /\ now = 1
  /\ InitWindow
  /\ InitWorker
  /\ num_text = <<>>
  /\ invoice_number = Unset
  /\ InitExtractors

NextButtons ==
  \/ \E box \in {"save_text", "enable_logging"} : CheckboxToggled(box)
  \/ select_directory
  \/ start_processing
  \/ \E fault \in RunFaults : RunBegin(fault)
  \/ \E fault \in Faults : ProcessDocument(fault, now)
  \/ RunEnd
  \/ processing_finished

SpecButtons == InitButtons /\ [][NextButtons]_vars

----------------------------------------------------------------------------
(* setup_logging on its own: the calls the window makes, up to MaxCalls *)

InitLogging ==
  /\ dir_state = "dir"
  /\ disk = EmptyDict
  /\ tmp_dir_exists = FALSE
  /\ failed_file = NoFile
  /\ duplicate_file = NoFile
  /\ log_file_exists = FALSE
  /\ text_files = {}
  /\ now = 1
  /\ InitWindow
  /\ InitWorker
  /\ num_text = <<>>
  /\ invoice_number = Unset
  /\ InitExtractors

\* logger = setup_logging(enable_logging=enable_logging), called by
\* toggle_logging with the new state of the box and by start_processing
\* with the state the box has
SetupLoggingCalled(site) ==
  /\ Len(logger.calls) < MaxCalls
  /\ enable_logging_checked' = IF site = "toggle_logging"
                               THEN ~enable_logging_checked
                               ELSE enable_logging_checked
  /\ logger' = [handlers |-> setup_logging(logger.handlers,
                                           enable_logging_checked'),
                calls |-> Append(logger.calls, enable_logging_checked')]
  /\ logger_level' = "INFO"
  /\ log_file_exists' = (log_file_exists \/ enable_logging_checked')
  /\ UNCHANGED <<dir_state, disk, tmp_dir_exists, failed_file, duplicate_file,
                 text_files, now, tallyVars, workerVars, num_text,
                 invoice_number, pdf, amount_result, company_text,
                 company_info, company_pc, dir_path, start_enabled,
                 dir_enabled, save_text_checked, clean_files_checked,
                 results_text>>

NextLogging ==
  \E site \in {"toggle_logging", "start_processing"} : SetupLoggingCalled(site)

SpecLogging == InitLogging /\ [][NextLogging]_vars

----------------------------------------------------------------------------
(* move_duplicate_invoice on its own: files of a tree are relocated one after
   the other, into a quarantine directory that may hold a file already *)

MoveDisks ==
  { [p \in files \cup held |-> WalkContent] :
      files \in {S \in SUBSET Range(DocPaths) : Cardinality(S) <= MaxDocs},
      held \in {{}, {Path(<<QuarantineName>>, "a", ".pdf")}} }

InitMove ==
  /\ dir_state = "dir"
  /\ disk \in MoveDisks
  /\ tmp_dir_exists = (\E p \in DOMAIN disk : InQuarantine(p))
  /\ failed_file = NoFile
  /\ duplicate_file = NoFile
  /\ log_file_exists = FALSE
  /\ text_files = {}
  /\ now = 1
  /\ InitWindow
  /\ InitWorker
  /\ num_text = <<>>
  /\ invoice_number = Unset
  /\ InitExtractors

\* moved_path = move_duplicate_invoice(pdf_path, tmp_dir)
Relocate(pdf_path, outcome, timestamp) ==
  /\ Len(log) < MaxDocs
  /\ pdf_path \in DOMAIN disk
  /\ ~InQuarantine(pdf_path)
  /\ outcome = "makedirs_fails" => ~tmp_dir_exists
  /\ IF ReadsClock(pdf_path, disk, tmp_dir_exists, outcome)
     THEN timestamp >= now /\ now' = timestamp
     ELSE timestamp = now /\ now' = now
  /\ LET mv == move_duplicate_invoice(pdf_path, disk, tmp_dir_exists,
                                      outcome, timestamp)
     IN  /\ disk' = mv.disk
         /\ tmp_dir_exists' = mv.tmp
         /\ log' = Append(log, [path |-> pdf_path, moved |-> mv.ret])
  /\ UNCHANGED <<dir_state, failed_file, duplicate_file, log_file_exists,
                 text_files, uiVars, tallyVars, worker, pc, all_pdf_files,
                 index, emitted_progress, result, runs, history, numVars>>

NextMove ==
  \E pdf_path \in Range(DocPaths),
     outcome \in {"ok", "makedirs_fails", "move_fails"},
     timestamp \in 1..MaxClock :
    Relocate(pdf_path, outcome, timestamp)

SpecMove == InitMove /\ [][NextMove]_vars

----------------------------------------------------------------------------
(* extract_invoice_number on its own: a text of up to MaxSegs segments *)

RunLengths == {7, 8, 12, 20, 31}

Segments == {Seg(l, "A", n) : l \in Labels, n \in RunLengths}

Texts == UNION {[1..k -> Segments] : k \in 0..MaxSegs}

InitNum ==
  /\ num_text \in Texts
  /\ invoice_number = Unset
  /\ dir_state = "dir"
  /\ disk = EmptyDict
  /\ tmp_dir_exists = FALSE
  /\ failed_file = NoFile
  /\ duplicate_file = NoFile
  /\ log_file_exists = FALSE
  /\ text_files = {}
  /\ now = 1
  /\ InitWindow
  /\ InitWorker
  /\ InitExtractors

\* invoice_number = extract_invoice_number(pdf_path)
ExtractNumber ==
  /\ invoice_number = Unset
  /\ invoice_number' = extract_invoice_number(num_text)
  /\ UNCHANGED <<envVars, uiVars, tallyVars, workerVars, num_text, pdf,
                 amount_result, company_text, company_info, company_pc,
                 logger>>

NextNum == ExtractNumber

SpecNum == InitNum /\ [][NextNum]_vars

----------------------------------------------------------------------------
(* The extractors on their own: a PDF of up to MaxPages pages, one line of
   which carries a label, a separator, a currency sign and a number *)

\* decimal strings D{1,3}(,DDD)*.DD with their values in cents
Decimals ==
  { [str |-> <<"0", ".", "1", "0">>, cents |-> 10],
    [str |-> <<"1", ",", "2", "3", "4", ".", "5", "6">>, cents |-> 123456],
    [str |-> <<"1", "2", ",", "3", "4", "5", ",", "6", "7", "8", ".", "9",
               "0">>, cents |-> 1234567890] }

\* what precedes the line: nothing, or a line with the invoice number and
\* a net amount
Headers ==
  { [segs |-> <<>>, chars |-> <<>>],
    [segs |-> <<Seg("FPHM:", "A", 8)>>,
     chars |-> <<"jin", "e", ":", "5", ".", "0", "0", "\n">>] }

AmountLabels == {JSHJ, DX, <<"x">>}

AmountSeparators == {<<>>, <<":">>, <<"fwcolon", " ">>, <<" ">>}

CurrencySigns == {<<>>, <<"yen">>, <<"fwyen">>}

AmountBodies == {d.str : d \in Decimals} \cup {<<>>, <<"1", "0", "0">>}

AmountSuffixes == {<<>>, <<"\n", "x">>}

Page(segs, chars) == [segs |-> segs, chars |-> chars]

BlankPage == Page(<<>>, <<>>)

\* the pages of a PDF whose text is head \o tail: on one page, after blank
\* pages, or on two pages
Layouts(segs, head, tail) ==
  { [j \in 1..(before + 1) |->
       IF j = before + 1 THEN Page(segs, head \o tail) ELSE BlankPage] :
      before \in 0..(MaxPages - 1) }
  \cup {<<Page(segs, head), Page(<<>>, tail)>>}

Pdfs ==
  {NoPdf, [readable |-> TRUE, pages |-> <<>>]}
  \cup { [readable |-> TRUE, pages |-> pages] :
           pages \in UNION { { p \in Layouts(h.segs, h.chars \o label,
                                            sep \o cur \o body \o suf) :
                                 Len(p) <= MaxPages } :
                             h \in Headers,
                             label \in AmountLabels, sep \in AmountSeparators,
                             cur \in CurrencySigns, body \in AmountBodies,
                             suf \in AmountSuffixes } }

\* what page.extract_text() gives for a page without text
BlankTexts == {"None", "empty"}

InitPdf ==
  /\ pdf \in Pdfs
  /\ amount_result = AmountUnset
  /\ invoice_number = Unset
  /\ num_text = <<>>
  /\ company_text = <<>>
  /\ company_info = EmptyInfo
  /\ company_pc = 0
  /\ logger = InitialLogger
  /\ dir_state = "dir"
  /\ disk = EmptyDict
  /\ tmp_dir_exists = FALSE
  /\ failed_file = NoFile
  /\ duplicate_file = NoFile
  /\ log_file_exists = FALSE
  /\ text_files = {}
  /\ now = 1
  /\ InitWindow
  /\ InitWorker

\* amount = extract_amount_from_pdf(pdf_path)
ExtractAmount ==
  /\ amount_result = AmountUnset
  /\ amount_result' = PdfAmount(pdf)
  /\ UNCHANGED <<envVars, uiVars, tallyVars, workerVars, num_text,
                 invoice_number, pdf, company_text, company_info, company_pc,
                 logger>>

\* invoice_number = extract_invoice_number(pdf_path)
ExtractPdfNumber(blank) ==
  /\ invoice_number = Unset
  /\ invoice_number' = PdfInvoiceNumber(pdf, blank)
  /\ UNCHANGED <<envVars, uiVars, tallyVars, workerVars, num_text, pdf,
                 amount_result, company_text, company_info, company_pc,
                 logger>>

NextPdf ==
  \/ ExtractAmount
  \/ \E blank \in BlankTexts : ExtractPdfNumber(blank)

SpecPdf == InitPdf /\ [][NextPdf]_vars

----------------------------------------------------------------------------
(* extract_company_info on its own: a text of up to MaxLines lines, one
   strategy at a time *)

CompanyLines ==
  { GMF \o MC \o <<":", "a", "b", " ", "c">>,
    GMF \o MC \o <<"fwcolon", "a", "b">>,
    XSF \o MC \o <<":", "c", " ", "d">>,
    MC \o <<":", "a", "b">>,
    NSRSBH \o <<":", "T18">>,
    TYDM \o <<"/">> \o NSRSBH \o <<":", "T15">>,
    <<"x">> }

\* "\n".join(lines)
RECURSIVE JoinLines(_)
JoinLines(lines) ==
  IF lines = <<>> THEN <<>>
  ELSE IF Len(lines) = 1 THEN lines[1]
  ELSE lines[1] \o <<"\n">> \o JoinLines(Tail(lines))

CompanyTexts ==
  {JoinLines(lines) : lines \in UNION {[1..k -> CompanyLines] : k \in 0..MaxLines}}

InitCompany ==
  /\ company_text \in CompanyTexts
  /\ company_info = EmptyInfo
  /\ company_pc = 0
  /\ logger = InitialLogger
  /\ pdf = NoPdf
  /\ amount_result = AmountUnset
  /\ invoice_number = Unset
  /\ num_text = <<>>
  /\ dir_state = "dir"
  /\ disk = EmptyDict
  /\ tmp_dir_exists = FALSE
  /\ failed_file = NoFile
  /\ duplicate_file = NoFile
  /\ log_file_exists = FALSE
  /\ text_files = {}
  /\ now = 1
  /\ InitWindow
  /\ InitWorker

\* what extract_company_info leaves alone
companyFrame == <<envVars, uiVars, tallyVars, workerVars, num_text,
                  invoice_number, pdf, amount_result, company_text, logger>>

\* the four pattern lists
CompanyDirect ==
  /\ company_pc = 0
  /\ company_info' = DirectPatterns(company_text)
  /\ company_pc' = 1
  /\ UNCHANGED companyFrame

\* the line scan
CompanyLineScan ==
  /\ company_pc = 1
  /\ company_info' = LineScan(company_info, company_text)
  /\ company_pc' = 2
  /\ UNCHANGED companyFrame

\* the combined label
CompanyCombined ==
  /\ company_pc = 2
  /\ company_info' = CombinedLabel(company_info, company_text)
  /\ company_pc' = 3
  /\ UNCHANGED companyFrame

\* the two occurrences, and `return result`
CompanyDual ==
  /\ company_pc = 3
  /\ company_info' = DualOccurrence(company_info, company_text)
  /\ company_pc' = 4
  /\ UNCHANGED companyFrame

NextCompany ==
  \/ CompanyDirect
  \/ CompanyLineScan
  \/ CompanyCombined
  \/ CompanyDual

SpecCompany == InitCompany /\ [][NextCompany]_vars

----------------------------------------------------------------------------
(* Properties of the batch *)

SuccessPaths == {success_list[k].path : k \in 1..Len(success_list)}

DuplicatePaths == {duplicate_list[k].path : k \in 1..Len(duplicate_list)}

FailedPaths == Range(failed_list)

RECURSIVE SumAmounts(_)
SumAmounts(list) ==
  IF list = <<>> THEN 0 ELSE Head(list).amount + SumAmounts(Tail(list))

\* the number of positions of list that hold x
Occurrences(list, x) == Cardinality({k \in 1..Len(list) : list[k] = x})

\* the value in cents of a displayed amount: digits, ignoring "," and "."
CharValue(c) == CHOOSE d \in 0..9 : DigitChars[d + 1] = c

RECURSIVE ParseAmount(_, _)
ParseAmount(chars, acc) ==
  IF chars = <<>> THEN acc
  ELSE IF Head(chars) \in {",", "."} THEN ParseAmount(Tail(chars), acc)
  ELSE ParseAmount(Tail(chars), acc * 10 + CharValue(Head(chars)))

\* the batch on a valid directory has emitted its result
BatchFinished == pc = "done" /\ Len(log) = Len(all_pdf_files) /\ runs > 0
                   /\ (result # NoResult => result.success)
                   /\ dir_state = "dir"

\* C1 (as stated): of any two documents with the same non-empty invoice
\* number, the later one ends as Duplicate referring to the earlier one, and
\* is not counted as a success.
C1_AsStated ==
  \A i \in 1..Len(log) : \A j \in (i + 1)..Len(log) :
    (log[i].invoice_number # NoNumber
       /\ log[i].invoice_number = log[j].invoice_number)
    => /\ \E k \in 1..Len(duplicate_list) :
            /\ duplicate_list[k].path = log[j].path
            /\ duplicate_list[k].original_path = log[i].path
       /\ log[j].path \notin SuccessPaths

\* C1 (amended): of two documents with the same non-empty invoice number of
\* which the earlier one ended Succeeded, the later one ends as Duplicate
\* with original_path the earlier one's path, and of all documents with that
\* number only the earlier one is in success_list.
C1_DuplicateOfSucceeded ==
  \A i \in 1..Len(log) : \A j \in (i + 1)..Len(log) :
    (log[i].invoice_number # NoNumber
       /\ log[i].invoice_number = log[j].invoice_number
       /\ log[i].path \in SuccessPaths)
    => /\ \E k \in 1..Len(duplicate_list) :
            /\ duplicate_list[k].path = log[j].path
            /\ duplicate_list[k].original_path = log[i].path
       /\ log[j].path \notin SuccessPaths
       /\ \A m \in 1..Len(success_list) :
            success_list[m].invoice_number = log[i].invoice_number
            => success_list[m].path = log[i].path

C1_Witness ==
  /\ BatchFinished
  /\ \E i \in 1..Len(log) : \E j \in (i + 1)..Len(log) :
       /\ log[i].invoice_number # NoNumber
       /\ log[i].invoice_number = log[j].invoice_number
       /\ log[i].path \in SuccessPaths
       /\ log[j].path \in DuplicatePaths
       /\ log[j].moved # NoPath
       /\ disk[log[j].moved].amt > 0
       /\ total_amount = disk[log[i].path].amt

\* C2: a document whose invoice number is empty is never flagged Duplicate,
\* and the empty number is never a key of processed_invoice_numbers.
C2_EmptyNumberNeverDuplicate ==
  /\ NoNumber \notin DOMAIN processed_invoice_numbers
  /\ \A i \in 1..Len(log) :
       log[i].invoice_number = NoNumber
       => ~log[i].flagged /\ log[i].path \notin DuplicatePaths

C2_Witness ==
  /\ BatchFinished
  /\ \E i \in 1..Len(log) : \E j \in (i + 1)..Len(log) :
       /\ log[i].invoice_number = NoNumber
       /\ log[j].invoice_number = NoNumber
       /\ disk[log[i].path] = disk[log[j].path]
       /\ {log[i].path, log[j].path} \subseteq SuccessPaths

\* C3: for a document flagged Duplicate the amount extraction is not invoked,
\* the document is not in success_list, and the totals count the records of
\* success_list only.
C3_DuplicateSkipsAmount ==
  /\ \A i \in 1..Len(log) :
       log[i].flagged
       => ~log[i].amount_called /\ log[i].path \notin SuccessPaths
  /\ total_count = Cardinality({i \in 1..Len(log) :
                      ~log[i].flagged /\ log[i].path \in SuccessPaths})

C3_Witness ==
  /\ BatchFinished
  /\ \E i \in 1..Len(log) :
       /\ log[i].flagged
       /\ disk[IF log[i].moved # NoPath THEN log[i].moved
               ELSE log[i].path].amt > 0
       /\ i < Len(log)

\* C4: total_amount is the exact sum, in cents, of the amounts of the records
\* of success_list, total_count is their number, no record of success_list
\* belongs to a Failed or Duplicate document, and the displayed total is
\* that sum.
C4_ExactTotal ==
  /\ total_amount = SumAmounts(success_list)
  /\ total_count = Len(success_list)
  /\ SuccessPaths \cap (FailedPaths \cup DuplicatePaths) = {}
  /\ \A k \in 1..Len(success_list) : success_list[k].amount > 0
  /\ results_text.shown
     => ParseAmount(results_text.amount, 0) = SumAmounts(success_list)

C4_Witness ==
  /\ results_text.shown
  /\ results_text.amount = <<"3", "5", "0", ".", "6", "0">>
  /\ results_text.success = 3
  /\ {success_list[k].amount : k \in 1..Len(success_list)} = {10000, 25050, 10}
  /\ total_amount = 35060

\* C5 (as stated): when a batch on a valid directory finishes, every
\* enumerated document is in exactly one of the three lists, the three counts
\* add up to the number of enumerated files, each count is the length of its
\* list, and an empty worklist gives zero counts and a zero total.
C5_AsStated ==
  BatchFinished
  => /\ \A k \in 1..Len(all_pdf_files) :
          Occurrences(failed_list, all_pdf_files[k])
            + Cardinality({m \in 1..Len(success_list) :
                             success_list[m].path = all_pdf_files[k]})
            + Cardinality({m \in 1..Len(duplicate_list) :
                             duplicate_list[m].path = all_pdf_files[k]}) = 1
     /\ total_count + failed_count + duplicate_count = Len(all_pdf_files)
     /\ total_count = Len(success_list)
     /\ failed_count = Len(failed_list)
     /\ duplicate_count = Len(duplicate_list)
     /\ all_pdf_files = <<>>
        => /\ total_count = 0 /\ failed_count = 0 /\ duplicate_count = 0
           /\ total_amount = 0

\* C6: a document whose processing raised inside the loop body is in
\* failed_list, and the batch still processes every document of the worklist
\* and emits a success=True result.
C6_ExceptionIsFailure ==
  /\ \A i \in 1..Len(log) : log[i].raised => log[i].path \in FailedPaths
  /\ (pc = "done" /\ \E i \in 1..Len(log) : log[i].raised)
     => /\ Len(log) = Len(all_pdf_files)
        /\ result # NoResult => result.success

C6_Witness ==
  /\ BatchFinished
  /\ result # NoResult
  /\ \E i \in 1..Len(log) :
       /\ log[i].raised
       /\ ~log[i].flagged
       /\ i < Len(log)
       /\ log[i + 1].path \in SuccessPaths

\* C7: a run on a root that is missing or not a directory ends at once with
\* a success=False result: nothing is enumerated or processed and nothing on
\* the disk changes (no file moved, no quarantine directory, no report, log
\* or text file written).
C7_InvalidDirectory ==
  [][(pc = "start" /\ dir_state # "dir")
     => /\ pc' = "done"
        /\ result' # NoResult
        /\ ~result'.success
        /\ all_pdf_files' = <<>>
        /\ index' = 0
        /\ log' = <<>>
        /\ envVars' = envVars]_vars

C7_Witness ==
  /\ pc = "done"
  /\ result # NoResult
  /\ ~result.success
  /\ dir_state = "file"
  /\ worker.save_debug_text
  /\ worker.enable_logging

\* C8: a duplicate whose relocation failed is still counted and recorded in
\* duplicate_list, without a moved_to field, is not in success_list, and the
\* batch goes on to the end of the worklist.
C8_FailedMoveStillDuplicate ==
  /\ \A i \in 1..Len(log) :
       (log[i].flagged /\ log[i].moved = NoPath)
       => /\ \E k \in 1..Len(duplicate_list) :
               /\ duplicate_list[k].path = log[i].path
               /\ "moved_to" \notin DOMAIN duplicate_list[k]
          /\ log[i].path \notin SuccessPaths
          /\ dir_state = "dir" => log[i].path \in DOMAIN disk
  /\ duplicate_count = Len(duplicate_list)
  /\ duplicate_count = Cardinality({i \in 1..Len(log) : log[i].flagged})
  /\ total_amount = SumAmounts(success_list)
  /\ pc = "done" /\ dir_state = "dir" /\ runs > 0
     => Len(log) = Len(all_pdf_files)

C8_Witness ==
  /\ BatchFinished
  /\ \E i \in 1..Len(log) :
       /\ log[i].flagged
       /\ log[i].moved = NoPath
       /\ ~log[i].raised
       /\ i < Len(log)

\* C17 (as stated): every document that ends Succeeded was passed through
\* extract_company_info, so its record in success_list carries buyer_name,
\* buyer_tax_id, seller_name and seller_tax_id besides invoice_number, amount
\* and path.
C17_AsStated ==
  \A k \in 1..Len(success_list) :
    {"buyer_name", "buyer_tax_id", "seller_name", "seller_tax_id",
     "invoice_number", "amount", "path"} \subseteq DOMAIN success_list[k]

\* the documents before position j that carry the number of log[j] and ended
\* Succeeded
EarlierSucceeded(j) ==
  {i \in 1..(j - 1) : /\ log[i].invoice_number = log[j].invoice_number
                      /\ log[i].path \in SuccessPaths}

\* C19: the keys of processed_invoice_numbers are the numbers of documents
\* that ended Succeeded with an amount above zero; a document that ended
\* Failed holds no entry, and a later document with its number (no Succeeded
\* document with that number before it) is not flagged and goes through the
\* amount extraction like any other document.
C19_RegisteredOnlyOnSuccess ==
  /\ \A n \in DOMAIN processed_invoice_numbers :
       /\ processed_invoice_numbers[n].invoice_number = n
       /\ processed_invoice_numbers[n].amount > 0
       /\ processed_invoice_numbers[n] \in Range(success_list)
  /\ \A i \in 1..Len(log) :
       log[i].path \notin SuccessPaths
       => \A n \in DOMAIN processed_invoice_numbers :
            processed_invoice_numbers[n].path # log[i].path
  /\ \A j \in 1..Len(log) :
       EarlierSucceeded(j) = {}
       => /\ ~log[j].flagged
          /\ log[j].amount_called
          /\ log[j].path \notin DuplicatePaths

C19_Witness ==
  /\ BatchFinished
  /\ \E i \in 1..Len(log) : \E j \in (i + 1)..Len(log) :
       /\ log[i].invoice_number # NoNumber
       /\ log[i].invoice_number = log[j].invoice_number
       /\ log[i].path \in FailedPaths
       /\ ~log[i].raised
       /\ log[j].path \in SuccessPaths
       /\ processed_invoice_numbers[log[j].invoice_number].path = log[j].path

\* the position in the worklist of the first document with the number that
\* ended Succeeded
EarliestSucceeded(number) ==
  CHOOSE i \in 1..Len(log) :
    /\ log[i].invoice_number = number
    /\ log[i].path \in SuccessPaths
    /\ \A m \in 1..(i - 1) :
         log[m].invoice_number = number => log[m].path \notin SuccessPaths

\* C20: while the batch runs no entry of processed_invoice_numbers is
\* overwritten or removed, and every record of duplicate_list names as
\* original_path the earliest Succeeded document with its number, which comes
\* before the duplicate in the worklist and is not a duplicate itself.
C20_FirstSeenKept ==
  /\ [][pc = "loop"
        => \A n \in DOMAIN processed_invoice_numbers :
             /\ n \in DOMAIN processed_invoice_numbers'
             /\ processed_invoice_numbers'[n] = processed_invoice_numbers[n]]_vars
  /\ [](\A k \in 1..Len(duplicate_list) :
          \E j \in 1..Len(log) :
            /\ log[j].path = duplicate_list[k].path
            /\ EarlierSucceeded(j) # {}
            /\ LET first == EarliestSucceeded(duplicate_list[k].invoice_number)
               IN  /\ first < j
                   /\ duplicate_list[k].original_path = log[first].path
                   /\ log[first].path \notin DuplicatePaths
                   /\ ~log[first].flagged)

C20_Witness ==
  /\ BatchFinished
  /\ Len(duplicate_list) = 2
  /\ duplicate_list[1].invoice_number = duplicate_list[2].invoice_number
  /\ duplicate_list[1].original_path = duplicate_list[2].original_path
  /\ duplicate_list[1].original_path = log[1].path
  /\ log[2].flagged
  /\ log[3].flagged

----------------------------------------------------------------------------
(* Properties of the batch run again *)

\* two executions of run() in a row that both went through the loop, the
\* second one started with tmp_duplicates and both report files gone
CleanRerun(i) ==
  /\ history.batches[i].outcome.success
  /\ history.batches[i + 1].outcome.success
  /\ history.batches[i + 1].cleaned

SameCounts(a, b, fields) == \A f \in fields : a[f] = b[f]

C16_FinishedOnce ==
  /\ [](pc = "loop" => Len(history.batches) = runs /\ history.batches[runs].emits = 0)
  /\ [](pc = "done" => Len(history.batches) = runs /\ history.batches[runs].emits = 1)
  /\ [](result # NoResult
        => IF result.success
           THEN {"total_count", "failed_count", "duplicate_count"}
                  \subseteq DOMAIN result
           ELSE "error" \in DOMAIN result)
  /\ (pc = "start") ~> (pc = "done" /\ result # NoResult)
  /\ (result # NoResult)
       ~> (result = NoResult /\ start_enabled /\ dir_enabled)
  /\ [][result # NoResult /\ result' = NoResult
        => start_enabled' /\ dir_enabled']_vars

C16_Witness ==
  /\ runs >= 1
  /\ Len(history.batches) = runs
  /\ history.batches[runs].emits = 1
  /\ ~history.batches[runs].outcome.success
  /\ dir_state = "dir"
  /\ all_pdf_files = <<>>
  /\ \E p \in DOMAIN disk : IsPdfName(p.name)
  /\ pc = "done"
  /\ result = NoResult
  /\ start_enabled
  /\ dir_enabled

----------------------------------------------------------------------------
(* Properties of the walk *)

\* C9 (as stated): the worklist holds every .pdf file below the root that is
\* outside <root>/tmp_duplicates and no file inside it, at any depth, and it
\* does not change once the loop has started.
C9_AsStated ==
  pc = "loop"
  => /\ \A p \in DOMAIN disk :
          (p.name.ext = ".pdf" /\ ~InQuarantine(p))
          => p \in Range(all_pdf_files)
     /\ \A p \in Range(all_pdf_files) : ~InQuarantine(p)

----------------------------------------------------------------------------
(* Properties of the progress events *)

\* a progress event has been emitted in the batch that is running
ProgressEmitted == pc = "body" \/ (pc = "loop" /\ index >= 1)

\* C22 (as stated): the progress event (k, total) is emitted after the k-th
\* document has completed, so that a progress of total/total means every
\* document of the worklist has been processed; total is the same in every
\* event of a run.
C22_AsStated ==
  ProgressEmitted
  => /\ emitted_progress[1] <= Len(log)
     /\ emitted_progress[1] = emitted_progress[2]
        => Len(log) = Len(all_pdf_files)
     /\ emitted_progress[2] = Len(all_pdf_files)

\* C22 (amended): the progress event (k, total) is emitted before the k-th
\* document is processed, when the k - 1 documents before it have completed,
\* so that a progress of total/total means every document but the last has
\* been processed; when the run is over all of them have; total is the
\* length of the worklist in every event of a run.
C22_ProgressBeforeDocument ==
  /\ pc = "body"
     => /\ emitted_progress = <<Len(log) + 1, Len(all_pdf_files)>>
        /\ index = Len(log)
  /\ (pc = "loop" /\ index >= 1)
     => emitted_progress = <<Len(log), Len(all_pdf_files)>>
  /\ (pc = "done" /\ Len(log) >= 1)
     => /\ emitted_progress = <<Len(log), Len(all_pdf_files)>>
        /\ Len(log) = Len(all_pdf_files)

C22_Witness ==
  /\ pc = "body"
  /\ Len(all_pdf_files) >= 2
  /\ emitted_progress = <<Len(all_pdf_files), Len(all_pdf_files)>>
  /\ Len(log) = Len(all_pdf_files) - 1
  /\ all_pdf_files[Len(all_pdf_files)] \in DOMAIN disk

----------------------------------------------------------------------------
(* Properties of the buttons *)

\* the worker thread is in run()
Running == pc \in {"start", "loop"}

\* C23: whatever the user does, both buttons are disabled from
\* start_processing until processing_finished, and while a worker runs no
\* other worker is created or started.
C23_OneWorker ==
  /\ []((Running \/ result # NoResult) => ~start_enabled /\ ~dir_enabled)
  /\ [][Running => runs' = runs /\ worker' = worker]_vars

C23_Witness ==
  /\ pc = "loop"
  /\ index >= 1
  /\ index < Len(all_pdf_files)
  /\ ~start_enabled
  /\ ~dir_enabled
  /\ worker.save_debug_text # save_text_checked
  /\ worker.enable_logging # enable_logging_checked
  /\ runs = 1

----------------------------------------------------------------------------
(* Properties of the report files *)

\* C25 (as stated): with 'clean previous outputs' ticked, when a run
\* completes the report files describe that run only: failed_fapiao.txt
\* exists exactly when the run has a Failed document and duplicate_fapiao.txt
\* exists exactly when the run has a Duplicate.
C25_AsStated ==
  [][pc = "loop" /\ pc' = "done" /\ clean_files_checked
       => /\ failed_file'.exists <=> failed_list # <<>>
          /\ duplicate_file'.exists <=> duplicate_list # <<>>]_vars

----------------------------------------------------------------------------
(* Properties of setup_logging *)

\* C24 (as stated): after any sequence of calls the logger holds the
\* handlers the last call added and no other: one console handler, and one
\* file handler exactly when the last call had enable_logging=True.
C24_AsStated ==
  /\ Occurrences(logger.handlers, "console") = 1
  /\ Occurrences(logger.handlers, "file")
       = (IF Last(logger.calls) THEN 1 ELSE 0)

----------------------------------------------------------------------------
(* Properties of move_duplicate_invoice *)

\* C21 (as stated): a relocation never replaces a file that is already in
\* the quarantine directory: the duplicates relocated so far, also those with
\* the same file name relocated within one second, are all on the disk at
\* targets that differ from one another.
C21_AsStated ==
  \A i \in 1..Len(log) : \A j \in (i + 1)..Len(log) :
    (log[i].moved # NoPath /\ log[j].moved # NoPath)
    => /\ log[i].moved # log[j].moved
       /\ log[i].moved \in DOMAIN disk
       /\ log[j].moved \in DOMAIN disk

----------------------------------------------------------------------------
(* Properties of extract_invoice_number *)

\* the groups captured by labelled pattern k in the text
Captured(k) == FindAll(patterns[k], num_text, FALSE)

\* the labelled patterns that match somewhere in the text
Matching == {k \in 1..Len(patterns) : Captured(k) # <<>>}

\* the lengths of all groups captured by labelled patterns
CapturedLengths ==
  UNION {{Captured(k)[m].len : m \in 1..Len(Captured(k))} : k \in Matching}

\* C10 (as stated): when several labelled patterns match digit runs of
\* different lengths, the result is the longest run any of them captured.
C10_AsStated ==
  (invoice_number # Unset /\ Cardinality(CapturedLengths) > 1)
  => \A n \in CapturedLengths : n <= invoice_number.len

\* C10 (amended): when labelled patterns match, the result is a run captured
\* by the first pattern of the list that matches, and no run captured by
\* that pattern is longer.
C10_LongestOfFirstPattern ==
  (invoice_number # Unset /\ Matching # {})
  => LET first == CHOOSE k \in Matching : \A m \in Matching : k <= m
     IN  /\ invoice_number \in Range(Captured(first))
         /\ \A c \in Range(Captured(first)) : c.len <= invoice_number.len

C10_Witness ==
  /\ invoice_number # Unset
  /\ Cardinality(Matching) > 1
  /\ \E n \in CapturedLengths : n > invoice_number.len

----------------------------------------------------------------------------
(* Properties of the extractors on a PDF *)

\* the text of the PDF
PdfText == PagesChars(pdf.pages)

\* whether the text holds digits, a dot and two fraction digits
HasDecimal(text) ==
  \E i \in 1..(Len(text) - 3) :
    /\ text[i] \in Digit
    /\ text[i + 1] = "."
    /\ text[i + 2] \in Digit
    /\ text[i + 3] \in Digit

\* C11: when the text holds a decimal string d of the form D{1,3}(,DDD)*.DD
\* after the label 价税合计, with or without a colon and a currency sign
\* between them, extract_amount_from_pdf returns exactly the value of d with
\* its commas removed.
C11_ExactLabelledAmount ==
  (amount_result # AmountUnset /\ pdf.readable)
  => \A h \in Headers, sep \in AmountSeparators,
        cur \in CurrencySigns, d \in Decimals, suf \in AmountSuffixes :
       PdfText = h.chars \o JSHJ \o sep \o cur \o d.str \o suf
       => amount_result = [raised |-> FALSE, value |-> d.cents]

C11_Witness ==
  /\ amount_result = [raised |-> FALSE, value |-> 1234567890]
  /\ HasDecimal(SubSeq(PdfText, 1, 8))
  /\ \E h \in Headers, d \in Decimals, suf \in AmountSuffixes :
       PdfText = h.chars \o JSHJ \o <<"fwcolon", " ", "yen">> \o d.str \o suf

RemainingPages == SelectSeq(pdf.pages, LAMBDA page : ~IsBlank(page))

RemainingNumber == extract_invoice_number(PagesSegs(RemainingPages))

RemainingAmount ==
  LET text == PagesChars(RemainingPages)
      found == AmountCascade(text)
  IN  IF text # <<>> /\ found.kind = "value" THEN found.value ELSE 0

\* C14 (as stated): for a PDF of which some page yields no text, the
\* invoice-number extraction and the amount extraction both return what the
\* text of the remaining pages holds.
C14_AsStated ==
  (/\ invoice_number # Unset
   /\ amount_result # AmountUnset
   /\ pdf.readable
   /\ \E j \in 1..Len(pdf.pages) : IsBlank(pdf.pages[j]))
  => /\ invoice_number = RemainingNumber
     /\ amount_result = [raised |-> FALSE, value |-> RemainingAmount]

\* no pattern of the first three tiers matches in the text
NoTierMatches(text) ==
  /\ MatchTier(amount_patterns, text, 1, 1).kind = "none"
  /\ MatchTier(table_patterns, text, 1, 2).kind = "none"
  /\ MatchTier(SubSeq(fallback_patterns, 1, 6), text, 1, 3).kind = "none"

\* C18 (as stated): when no pattern of the first three tiers gives a result,
\* the amount is the decimal number in the context of the first keyword of
\* key_sections whose context holds one, and 0.00 only when no keyword's
\* context holds one.
C18_AsStated ==
  (/\ amount_result # AmountUnset
   /\ pdf.readable
   /\ PdfText # <<>>
   /\ NoTierMatches(PdfText))
  => amount_result.value =
       (IF KeySections(PdfText, 1).kind = "value"
        THEN KeySections(PdfText, 1).value ELSE 0)

----------------------------------------------------------------------------
(* Properties of extract_company_info *)

\* C13 (as stated): once the pattern lists or a later strategy have set a
\* field of the result to a non-empty value, no later strategy changes that
\* field.
C13_AsStated ==
  [][company_pc >= 1
     => \A f \in DOMAIN company_info :
          company_info[f] # <<>> => company_info'[f] = company_info[f]]_vars

====
